---- MODULE Spec2Model ----
(***************************************************************************)
(* A model of the in-memory coordinator of aiida-core,                     *)
(* aiida/brokers/phantom/coordinator.py (class PhantomCoordinator).        *)
(*                                                                         *)
(* The three subscriber registries are Python dicts.  A dict keeps its     *)
(* keys in insertion order, and the send operations iterate over           *)
(* .values(), so a registry is modelled as a sequence of entries           *)
(* [id, cb] with pairwise distinct ids.                                    *)
(***************************************************************************)
EXTENDS Integers, Sequences, FiniteSets

VARIABLES
    task_subscribers,       \* self._task_subscribers
    broadcast_subscribers,  \* self._broadcast_subscribers
    rpc_subscribers,        \* self._rpc_subscribers
    closed,                 \* self._closed
    last,                   \* the most recent call: its arguments and what the caller saw
    thr,                    \* per thread: the position inside add_*/remove_*_subscriber
    live,                   \* registrations that returned successfully and were not removed
    envelope,               \* sender and subject of the most recent broadcast_send
    worker,                 \* start_daemon_worker: its position and what it has done
    loop,                   \* the event loop of the runner
    atasks,                 \* the asyncio tasks scheduled on the loop
    runner,                 \* the runner: the calls made to its close()
    sched,                  \* the most recent call to the scheduler plugin
    transport,              \* the transport of the scheduler: open scopes and what was done on it
    rendered                \* the submit script headers rendered for a job template

daemonVars == <<worker, loop, atasks, runner>>

\* The scheduler plugin: its calls and the transport they use.
schedVars == <<sched, transport>>

\* The state of the daemon worker and of the scheduler plugin.
otherVars == <<daemonVars, schedVars, rendered>>

vars == <<task_subscribers, broadcast_subscribers, rpc_subscribers, closed,
          last, thr, live, envelope, otherVars>>

coordVars == <<task_subscribers, broadcast_subscribers, rpc_subscribers, closed>>

----------------------------------------------------------------------------
(* Bounds of the model. *)

\* Total number of entries the three registries may hold together.
MaxSubscribers == 3
\* Number of calls each thread makes in the threaded specification.
MaxCalls == 2

----------------------------------------------------------------------------
(* Inputs. *)

\* identifier=None, the default of the add_*_subscriber methods.
NoId == "None"

\* Explicit identifiers callers pass.
Identifiers == {"a", "b"}

\* What shortuuid.uuid() may return: never an identifier a caller passes.
UuidPool == {"u1"}

\* `identifier or ...`: None and the empty string are falsy.
Falsy(identifier) == identifier \in {NoId, ""}

\* The subscriber callables the callers register: task subscribers may
\* reject a task, the others return or fail.
TaskCallbacks == {"reject", "ret42", "boom"}

RpcCallbacks == {"ret42", "boom"}

BroadcastCallbacks == {"ret42", "boom"}

\* subject_filters=None, sender_filters=None: the defaults of add_broadcast_subscriber.
NoFilter == {}
\* sender=None, subject=None: the defaults of broadcast_send.
NoSender == "None"
NoSubject == "None"
Subjects == {"A", "B"}
Senders == {"X", "Y"}

\* The sender and subject keyword arguments broadcast_send passes to a subscriber.
Envelope(sender, subject) == [sender |-> sender, subject |-> subject]

\* Callables registered together with filters: "onlyA" is registered with
\* subject_filters=["A"], "fromX" with sender_filters=["X"]; "ret42" has none.
FilteredCallbacks == {"ret42", "onlyA", "fromX"}
SubjectFiltersOf(subscriber) == IF subscriber = "onlyA" THEN {"A"} ELSE NoFilter
SenderFiltersOf(subscriber) == IF subscriber = "fromX" THEN {"X"} ELSE NoFilter

\* A filter list passes a value when the value is one of its elements.
Matches(filters, value) == filters = NoFilter \/ value \in filters

\* What a callable does when it is invoked: it raises TaskRejected, it
\* returns a value, or it raises some other exception.
Behaviour(cb) ==
    CASE cb = "reject" -> "reject"
      [] cb = "ret42"  -> "return"
      [] cb = "boom"   -> "raise"
      [] cb \in {"onlyA", "fromX"} -> "return"

ReturnValue(cb) == IF cb = "ret42" THEN "42" ELSE "none"

RaisedError(cb) ==
    CASE cb = "reject" -> "TaskRejected"
      [] cb = "boom"   -> "Boom"
      [] OTHER         -> "none"

----------------------------------------------------------------------------
(* Python dict operations on a registry. *)

Keys(d) == {d[i].id : i \in DOMAIN d}

\* `k in d`
HasKey(d, k) == k \in Keys(d)

\* `d[k]`, for a key that is present
DictGet(d, k) == d[CHOOSE i \in DOMAIN d : d[i].id = k].cb

\* `d[k] = v`: a new key goes to the end, a present key keeps its place and
\* gets the new value.
DictSet(d, k, v) ==
    IF HasKey(d, k)
    THEN [i \in DOMAIN d |-> IF d[i].id = k THEN [id |-> k, cb |-> v] ELSE d[i]]
    ELSE Append(d, [id |-> k, cb |-> v])

\* `d.pop(k)` / `del d[k]`, for a key that is present
DictPop(d, k) == SelectSeq(d, LAMBDA e : e.id # k)

\* `del self._..._subscribers`: the attribute is gone; every later access is
\* behind _ensure_open.
Released == <<>>

----------------------------------------------------------------------------
(* concurrent.futures.Future, as the caller of a send sees it. *)

\* The call returned no future (it raised, or returned None).
NoFuture == [state |-> "none", value |-> "none", error |-> "none", sets |-> 0]

\* concurrent.futures.Future()
NewFuture == [state |-> "pending", value |-> "none", error |-> "none", sets |-> 0]

\* future.set_result(v)
SetResult(f, v) ==
    [state |-> "result", value |-> v, error |-> "none", sets |-> f.sets + 1]

\* future.set_exception(RuntimeError(sys.exc_info())): a RuntimeError that
\* carries the error the subscriber raised.
SetException(f, e) ==
    [state |-> "exception", value |-> "RuntimeError", error |-> e, sets |-> f.sets + 1]

----------------------------------------------------------------------------
(* What a caller sees of a call. *)

CoordinatorConnectionError == "CoordinatorConnectionError"

Call(op, identifier, subscriber, no_reply, outcome, ret, invoked, future) ==
    [op |-> op, id |-> identifier, cb |-> subscriber, no_reply |-> no_reply,
     outcome |-> outcome, ret |-> ret, invoked |-> invoked, future |-> future]

\* A call that raised `error` before it invoked any subscriber.
Raised(op, identifier, subscriber, no_reply, error) ==
    Call(op, identifier, subscriber, no_reply, error, "none", <<>>, NoFuture)

\* _ensure_open without its test: it never raises.
EnsureOpenSkipped == FALSE

\* `if self.is_closed(): raise CoordinatorConnectionError`
EnsureOpenRaises == closed

TotalSubscribers(t, b, r) == Len(t) + Len(b) + Len(r)

\* `identifier = identifier or shortuuid.uuid()`, where uuid is what
\* shortuuid.uuid() returns
ResolveIdentifier(identifier, uuid) ==
    IF Falsy(identifier) THEN uuid ELSE identifier

\* shortuuid.uuid() is collision-free: it returns an identifier that no
\* registry holds.  (One that was removed from every registry may come
\* again: no state of the coordinator tells it from a new one.)
FreshUuids ==
    UuidPool \ (Keys(task_subscribers) \cup Keys(broadcast_subscribers)
                    \cup Keys(rpc_subscribers))

\* shortuuid.uuid() is called only for a falsy identifier.
UuidChoices(identifier) == IF Falsy(identifier) THEN FreshUuids ELSE {NoId}

----------------------------------------------------------------------------
(* The delivery loops.  Each yields what was invoked, in order, the state  *)
(* of the future, and the error that left the loop ("none": no error).     *)

Delivery(invoked, future, raised) ==
    [invoked |-> invoked, future |-> future, raised |-> raised]

\* task_send's loop without the `break` after set_result.
RECURSIVE TaskDeliverNoBreak(_, _, _, _)
TaskDeliverNoBreak(subs, i, invoked, future) ==
    IF i > Len(subs)
    THEN Delivery(invoked, future, "none")
    ELSE LET subscriber == subs[i].cb
             now == Append(invoked, subs[i])
         IN  CASE Behaviour(subscriber) = "return" ->
                    TaskDeliverNoBreak(subs, i + 1, now,
                                       SetResult(future, ReturnValue(subscriber)))
               [] Behaviour(subscriber) = "reject" ->
                    TaskDeliverNoBreak(subs, i + 1, now, future)
               [] OTHER ->
                    Delivery(now, SetException(future, RaisedError(subscriber)), "none")

\* task_send's loop with `except Exception: pass` in place of the second handler.
RECURSIVE TaskDeliverSwallow(_, _, _, _)
TaskDeliverSwallow(subs, i, invoked, future) ==
    IF i > Len(subs)
    THEN Delivery(invoked, future, "none")
    ELSE LET subscriber == subs[i].cb
             now == Append(invoked, subs[i])
         IN  CASE Behaviour(subscriber) = "return" ->
                    Delivery(now, SetResult(future, ReturnValue(subscriber)), "none")
               [] OTHER ->
                    TaskDeliverSwallow(subs, i + 1, now, future)

\* `for subscriber in self._task_subscribers.values():` from the i-th value on.
RECURSIVE TaskDeliver(_, _, _, _)
TaskDeliver(subs, i, invoked, future) ==
    IF i > Len(subs)
    THEN Delivery(invoked, future, "none")
    ELSE LET subscriber == subs[i].cb
             now == Append(invoked, subs[i])
         IN  CASE Behaviour(subscriber) = "return" ->
                    \* result = subscriber(self, msg); future.set_result(result); break
                    Delivery(now, SetResult(future, ReturnValue(subscriber)), "none")
               [] Behaviour(subscriber) = "reject" ->
                    \* except TaskRejected: pass
                    TaskDeliver(subs, i + 1, now, future)
               [] OTHER ->
                    \* except Exception: future.set_exception(...); break
                    Delivery(now, SetException(future, RaisedError(subscriber)), "none")

\* `for subscriber in self._broadcast_subscribers.values(): subscriber(...)`
\* from the i-th value on: nothing catches what a subscriber raises.
RECURSIVE BroadcastDeliver(_, _, _)
BroadcastDeliver(subs, i, invoked) ==
    IF i > Len(subs)
    THEN Delivery(invoked, NoFuture, "none")
    ELSE LET subscriber == subs[i].cb
             now == Append(invoked, subs[i])
         IN  IF Behaviour(subscriber) = "return"
             THEN BroadcastDeliver(subs, i + 1, now)
             ELSE Delivery(now, NoFuture, RaisedError(subscriber))

----------------------------------------------------------------------------
(* The state of the daemon worker: the tasks and the event loop of          *)
(* aiida/engine/daemon/worker.py.  Its actions are further below.           *)

\* Number of tasks the steady state schedules on the loop (the N of the claims).
MaxTasks == 2
\* Number of signals delivered to the process.
MaxSignals == 2

\* signals = (signal.SIGTERM, signal.SIGINT)
Signals == <<"SIGTERM", "SIGINT">>

WorkIds == 1 .. MaxTasks
ShutdownIds == (MaxTasks + 1) .. (MaxTasks + MaxSignals)
TaskIds == WorkIds \cup ShutdownIds

\* What the coroutine of a scheduled task does when CancelledError is thrown
\* into it: it lets it propagate, it ends with another exception, it
\* catches it and returns, or it catches it and awaits again.
Reactions == {"cancel", "raise", "return", "ignore"}

\* task.done()
Finished == {"cancelled", "failed", "returned"}

NoTask ==
    [kind |-> "none", status |-> "absent", started |-> FALSE, reaction |-> "none",
     must_cancel |-> FALSE, cancelled_by |-> {}, children |-> {},
     nfinished |-> 0, closed |-> FALSE]

\* asyncio.create_task(coro): the task exists and its first step is queued.
NewTask(kind, reaction) ==
    [NoTask EXCEPT !.kind = kind, !.status = "scheduled", !.reaction = reaction]

\* Handles of the ready queue.
StepHandle(x) == [h |-> "step", of |-> x, child |-> 0]
GatherHandle(s, x) == [h |-> "gathered", of |-> s, child |-> x]
SignalHandle(sig) == [h |-> "signal", of |-> sig, child |-> 0]
ReadSelfHandle == [h |-> "read_self", of |-> 0, child |-> 0]

Range(seq) == {seq[i] : i \in DOMAIN seq}

\* The orders in which a set may be iterated.
Orders(set) ==
    {f \in [1 .. Cardinality(set) -> set] : \A i, j \in DOMAIN f : f[i] = f[j] => i = j}

IdleWorker ==
    [pc |-> "idle", handlers |-> {}, logged |-> FALSE, raised |-> "none",
     failed_at |-> "none", failed_with |-> "none", rlimit |-> "default",
     entered |-> FALSE]
IdleLoop ==
    [ready |-> <<>>, ntodo |-> 0, stopping |-> FALSE, pipe |-> <<>>,
     arrived |-> 0, handled |-> 0]
IdleRunner == [closes |-> 0]

----------------------------------------------------------------------------
(* The direct scheduler plugin, aiida/schedulers/plugins/direct.py.  Text   *)
(* (a job id, a line of output) is a sequence of one-character strings.     *)

\* Number of lines in the output of the listing command.
MaxLines == 2
\* Number of job ids in a jobs filter.
MaxRequested == 2

\* The characters str.strip() and the pattern \s take as whitespace.
Whitespace == {" ", "\t", "\n"}

\* No call of the scheduler plugin has been made.
NoSchedulerCall ==
    [op |-> "none", input |-> <<>>, outcome |-> "none", type |-> "none",
     result |-> <<>>]

\* The transport of a scheduler nobody has opened: no scope is open and
\* nothing was done on it.  An event is [name, depth]: entering a scope,
\* executing a command, leaving a scope, with the scopes open at that moment.
ClosedTransport == [depth |-> 0, events |-> <<>>]

\* `with self.transport:` is entered.
TransportEnter(t) ==
    [depth |-> t.depth + 1, events |-> Append(t.events, [name |-> "enter", depth |-> t.depth])]

\* self.transport.exec_command_wait(command)
TransportExec(t) ==
    [t EXCEPT !.events = Append(@, [name |-> "exec", depth |-> t.depth])]

\* `with self.transport:` is left, by the end of the block or by an exception.
TransportExit(t) ==
    [depth |-> t.depth - 1, events |-> Append(t.events, [name |-> "exit", depth |-> t.depth])]

\* Number of times the header of one job template is rendered.
MaxRenders == 2

\* No job template has been rendered.  `given` is the template as the caller
\* passed it first, `job_tmpl` the same object as it is now, `headers` what
\* each rendering returned, `after` the scheduler call that preceded each
\* rendering and `log` the warnings and infos logged.
NoTemplate == [set |-> FALSE]
NothingRendered ==
    [backend |-> "none", given |-> NoTemplate, job_tmpl |-> NoTemplate,
     headers |-> <<>>, after |-> <<>>, log |-> <<>>]

----------------------------------------------------------------------------
(* The state after PhantomCoordinator(). *)

Threads == {1, 2}

IdleThread ==
    [pc |-> "idle", op |-> "none", reg |-> "none", id |-> NoId, cb |-> "none",
     outcome |-> "none", calls |-> 0]

NoCall == Call("init", NoId, "none", FALSE, "none", "none", <<>>, NoFuture)

Init ==
    /\ task_subscribers = <<>>
    /\ broadcast_subscribers = <<>>
    /\ rpc_subscribers = <<>>
    /\ closed = FALSE
    /\ last = NoCall
    /\ thr = [t \in Threads |-> IdleThread]
    /\ live = {}
    /\ envelope = Envelope(NoSender, NoSubject)
    /\ worker = IdleWorker
    /\ loop = IdleLoop
    /\ atasks = [x \in TaskIds |-> NoTask]
    /\ runner = IdleRunner
    /\ sched = NoSchedulerCall
    /\ transport = ClosedTransport
    /\ rendered = NothingRendered

----------------------------------------------------------------------------
(* The methods, each as one call made while no other call is running. *)

IsClosed ==
    /\ last' = Call("is_closed", NoId, "none", FALSE, "ok",
                    IF closed THEN "True" ELSE "False", <<>>, NoFuture)
    /\ UNCHANGED <<coordVars, thr, live, envelope, otherVars>>

\* A close() that opens a closed coordinator again.
CloseReopens ==
    /\ IF closed
       THEN /\ closed' = FALSE
            /\ UNCHANGED <<task_subscribers, broadcast_subscribers, rpc_subscribers>>
       ELSE /\ closed' = TRUE
            /\ task_subscribers' = Released
            /\ broadcast_subscribers' = Released
            /\ rpc_subscribers' = Released
    /\ last' = Call("close", NoId, "none", FALSE, "ok", "none", <<>>, NoFuture)
    /\ UNCHANGED <<thr, live, envelope, otherVars>>

Close ==
    /\ IF closed
       THEN UNCHANGED coordVars
       ELSE /\ closed' = TRUE
            /\ task_subscribers' = Released
            /\ broadcast_subscribers' = Released
            /\ rpc_subscribers' = Released
    /\ last' = Call("close", NoId, "none", FALSE, "ok", "none", <<>>, NoFuture)
    /\ UNCHANGED <<thr, live, envelope, otherVars>>

AddRpcSubscriber(subscriber, identifier, uuid) ==
    /\ IF EnsureOpenRaises
       THEN /\ last' = Raised("add_rpc", identifier, subscriber, FALSE,
                              CoordinatorConnectionError)
            /\ UNCHANGED coordVars
       ELSE LET id == ResolveIdentifier(identifier, uuid)
            IN  IF HasKey(rpc_subscribers, id)
                THEN /\ last' = Raised("add_rpc", identifier, subscriber, FALSE,
                                       "RuntimeError")
                     /\ UNCHANGED coordVars
                ELSE /\ rpc_subscribers' = DictSet(rpc_subscribers, id, subscriber)
                     /\ last' = Call("add_rpc", identifier, subscriber, FALSE,
                                     "ok", id, <<>>, NoFuture)
                     /\ UNCHANGED <<task_subscribers, broadcast_subscribers, closed>>
    /\ TotalSubscribers(task_subscribers', broadcast_subscribers', rpc_subscribers')
           <= MaxSubscribers
    /\ UNCHANGED <<thr, live, envelope, otherVars>>

RemoveRpcSubscriber(identifier) ==
    /\ IF EnsureOpenRaises
       THEN /\ last' = Raised("remove_rpc", identifier, "none", FALSE,
                              CoordinatorConnectionError)
            /\ UNCHANGED coordVars
       ELSE IF HasKey(rpc_subscribers, identifier)
            THEN /\ rpc_subscribers' = DictPop(rpc_subscribers, identifier)
                 /\ last' = Call("remove_rpc", identifier, "none", FALSE, "ok",
                                 "none", <<>>, NoFuture)
                 /\ UNCHANGED <<task_subscribers, broadcast_subscribers, closed>>
            ELSE /\ last' = Raised("remove_rpc", identifier, "none", FALSE, "ValueError")
                 /\ UNCHANGED coordVars
    /\ UNCHANGED <<thr, live, envelope, otherVars>>

\* The membership test reads self._rpc_subscribers (line 54); the store goes
\* to self._task_subscribers (line 56).
\* A registration that hands a message kept from an earlier task_send to the
\* subscriber it registers.
AddTaskSubscriberDelivers(subscriber, identifier, uuid) ==
    /\ ~EnsureOpenRaises
    /\ LET id == ResolveIdentifier(identifier, uuid)
       IN  /\ task_subscribers' = DictSet(task_subscribers, id, subscriber)
           /\ last' = Call("add_task", identifier, subscriber, FALSE, "ok", id,
                           <<[id |-> id, cb |-> subscriber]>>, NoFuture)
    /\ UNCHANGED <<rpc_subscribers, broadcast_subscribers, closed, thr, live,
                   envelope, otherVars>>
    /\ TotalSubscribers(task_subscribers', broadcast_subscribers', rpc_subscribers')
           <= MaxSubscribers

AddTaskSubscriber(subscriber, identifier, uuid) ==
    /\ IF EnsureOpenRaises
       THEN /\ last' = Raised("add_task", identifier, subscriber, FALSE,
                              CoordinatorConnectionError)
            /\ UNCHANGED coordVars
       ELSE LET id == ResolveIdentifier(identifier, uuid)
            IN  IF HasKey(rpc_subscribers, id)
                THEN /\ last' = Raised("add_task", identifier, subscriber, FALSE,
                                       "RuntimeError")
                     /\ UNCHANGED coordVars
                ELSE /\ task_subscribers' = DictSet(task_subscribers, id, subscriber)
                     /\ last' = Call("add_task", identifier, subscriber, FALSE,
                                     "ok", id, <<>>, NoFuture)
                     /\ UNCHANGED <<rpc_subscribers, broadcast_subscribers, closed>>
    /\ TotalSubscribers(task_subscribers', broadcast_subscribers', rpc_subscribers')
           <= MaxSubscribers
    /\ UNCHANGED <<thr, live, envelope, otherVars>>

RemoveTaskSubscriber(identifier) ==
    /\ IF EnsureOpenRaises
       THEN /\ last' = Raised("remove_task", identifier, "none", FALSE,
                              CoordinatorConnectionError)
            /\ UNCHANGED coordVars
       ELSE IF HasKey(task_subscribers, identifier)
            THEN /\ task_subscribers' = DictPop(task_subscribers, identifier)
                 /\ last' = Call("remove_task", identifier, "none", FALSE, "ok",
                                 "none", <<>>, NoFuture)
                 /\ UNCHANGED <<rpc_subscribers, broadcast_subscribers, closed>>
            ELSE /\ last' = Raised("remove_task", identifier, "none", FALSE, "ValueError")
                 /\ UNCHANGED coordVars
    /\ UNCHANGED <<thr, live, envelope, otherVars>>

\* subject_filters and sender_filters are accepted and not stored.
AddBroadcastSubscriber(subscriber, subject_filters, sender_filters, identifier, uuid) ==
    /\ IF EnsureOpenRaises
       THEN /\ last' = Raised("add_broadcast", identifier, subscriber, FALSE,
                              CoordinatorConnectionError)
            /\ UNCHANGED coordVars
       ELSE LET id == ResolveIdentifier(identifier, uuid)
            IN  IF HasKey(broadcast_subscribers, id)
                THEN /\ last' = Raised("add_broadcast", identifier, subscriber, FALSE,
                                       "RuntimeError")
                     /\ UNCHANGED coordVars
                ELSE /\ broadcast_subscribers' =
                            DictSet(broadcast_subscribers, id, subscriber)
                     /\ last' = Call("add_broadcast", identifier, subscriber, FALSE,
                                     "ok", id, <<>>, NoFuture)
                     /\ UNCHANGED <<task_subscribers, rpc_subscribers, closed>>
    /\ TotalSubscribers(task_subscribers', broadcast_subscribers', rpc_subscribers')
           <= MaxSubscribers
    /\ UNCHANGED <<thr, live, envelope, otherVars>>

RemoveBroadcastSubscriber(identifier) ==
    /\ IF EnsureOpenRaises
       THEN /\ last' = Raised("remove_broadcast", identifier, "none", FALSE,
                              CoordinatorConnectionError)
            /\ UNCHANGED coordVars
       ELSE IF HasKey(broadcast_subscribers, identifier)
            THEN /\ broadcast_subscribers' = DictPop(broadcast_subscribers, identifier)
                 /\ last' = Call("remove_broadcast", identifier, "none", FALSE, "ok",
                                 "none", <<>>, NoFuture)
                 /\ UNCHANGED <<task_subscribers, rpc_subscribers, closed>>
            ELSE /\ last' = Raised("remove_broadcast", identifier, "none", FALSE,
                                   "ValueError")
                 /\ UNCHANGED coordVars
    /\ UNCHANGED <<thr, live, envelope, otherVars>>

\* rpc_send with `except KeyError: pass`: an unknown recipient gets a future
\* nobody resolves.
RpcSendNoRaise(recipient_id) ==
    /\ IF EnsureOpenRaises
       THEN last' = Raised("rpc_send", recipient_id, "none", FALSE,
                           CoordinatorConnectionError)
       ELSE IF ~HasKey(rpc_subscribers, recipient_id)
            THEN last' = Call("rpc_send", recipient_id, "none", FALSE, "ok", "none",
                              <<>>, NewFuture)
            ELSE LET subscriber == DictGet(rpc_subscribers, recipient_id)
                     future == IF Behaviour(subscriber) = "return"
                               THEN SetResult(NewFuture, ReturnValue(subscriber))
                               ELSE SetException(NewFuture, RaisedError(subscriber))
                 IN  last' = Call("rpc_send", recipient_id, "none", FALSE, "ok", "none",
                                  <<[id |-> recipient_id, cb |-> subscriber]>>, future)
    /\ UNCHANGED <<coordVars, thr, live, envelope, otherVars>>

\* A task_send that returns at once when no reply is wanted.
TaskSendNoReplySkips(no_reply) ==
    /\ IF EnsureOpenRaises
       THEN last' = Raised("task_send", NoId, "none", no_reply,
                           CoordinatorConnectionError)
       ELSE LET d == IF no_reply THEN Delivery(<<>>, NewFuture, "none")
                     ELSE TaskDeliver(task_subscribers, 1, <<>>, NewFuture)
            IN  last' = Call("task_send", NoId, "none", no_reply, "ok", "none", d.invoked,
                             IF no_reply THEN NoFuture ELSE d.future)
    /\ UNCHANGED <<coordVars, thr, live, envelope, otherVars>>

TaskSend(no_reply) ==
    /\ IF EnsureOpenRaises
       THEN last' = Raised("task_send", NoId, "none", no_reply,
                           CoordinatorConnectionError)
       ELSE LET d == TaskDeliver(task_subscribers, 1, <<>>, NewFuture)
            IN  last' = Call("task_send", NoId, "none", no_reply,
                             IF d.raised = "none" THEN "ok" ELSE d.raised,
                             "none", d.invoked,
                             \* if no_reply: return None; else: return future
                             IF no_reply \/ d.raised # "none" THEN NoFuture ELSE d.future)
    /\ UNCHANGED <<coordVars, thr, live, envelope, otherVars>>

RpcSend(recipient_id) ==
    /\ IF EnsureOpenRaises
       THEN last' = Raised("rpc_send", recipient_id, "none", FALSE,
                           CoordinatorConnectionError)
       ELSE IF ~HasKey(rpc_subscribers, recipient_id)
            THEN \* except KeyError: raise RuntimeError(...)
                 last' = Raised("rpc_send", recipient_id, "none", FALSE, "RuntimeError")
            ELSE LET subscriber == DictGet(rpc_subscribers, recipient_id)
                     future == IF Behaviour(subscriber) = "return"
                               THEN SetResult(NewFuture, ReturnValue(subscriber))
                               ELSE SetException(NewFuture, RaisedError(subscriber))
                 IN  last' = Call("rpc_send", recipient_id, "none", FALSE, "ok", "none",
                                  <<[id |-> recipient_id, cb |-> subscriber]>>, future)
    /\ UNCHANGED <<coordVars, thr, live, envelope, otherVars>>

BroadcastSend(sender, subject) ==
    /\ envelope' = Envelope(sender, subject)
    /\ IF EnsureOpenRaises
       THEN last' = Raised("broadcast_send", NoId, "none", FALSE,
                           CoordinatorConnectionError)
       ELSE LET d == BroadcastDeliver(broadcast_subscribers, 1, <<>>)
            IN  last' = Call("broadcast_send", NoId, "none", FALSE,
                             IF d.raised = "none" THEN "ok" ELSE d.raised,
                             IF d.raised = "none" THEN "True" ELSE "none",
                             d.invoked, NoFuture)
    /\ UNCHANGED <<coordVars, thr, live, otherVars>>

----------------------------------------------------------------------------
(* The coordinator driven by one caller at a time. *)

\* identifier arguments of the add_* methods
IdentifierArgs == Identifiers \cup {NoId}

\* identifier arguments of the remove_* methods and of rpc_send
KnownIdentifiers == Identifiers \cup UuidPool

Next ==
    \/ IsClosed
    \/ Close
    \/ \E subscriber \in RpcCallbacks, identifier \in IdentifierArgs :
           \E uuid \in UuidChoices(identifier) :
               AddRpcSubscriber(subscriber, identifier, uuid)
    \/ \E identifier \in KnownIdentifiers : RemoveRpcSubscriber(identifier)
    \/ \E subscriber \in TaskCallbacks, identifier \in IdentifierArgs :
           \E uuid \in UuidChoices(identifier) :
               AddTaskSubscriber(subscriber, identifier, uuid)
    \/ \E identifier \in KnownIdentifiers : RemoveTaskSubscriber(identifier)
    \/ \E subscriber \in BroadcastCallbacks, identifier \in IdentifierArgs :
           \E uuid \in UuidChoices(identifier) :
               AddBroadcastSubscriber(subscriber, NoFilter, NoFilter, identifier, uuid)
    \/ \E identifier \in KnownIdentifiers : RemoveBroadcastSubscriber(identifier)
    \/ \E no_reply \in BOOLEAN : TaskSend(no_reply)
    \/ \E recipient_id \in KnownIdentifiers : RpcSend(recipient_id)
    \/ BroadcastSend(NoSender, NoSubject)

Spec == Init /\ [][Next]_vars

----------------------------------------------------------------------------
(* Subscribers that call the coordinator they are handed.  Every callable   *)
(* gets the coordinator as its first argument (lines 94 and 126) and may    *)
(* call close, add_*_subscriber or remove_*_subscriber on it before it      *)
(* returns.  The loops iterate over the values of the dict that was the     *)
(* registry when the loop started: `del self._..._subscribers` removes the  *)
(* attribute and leaves that dict as it is, while a dict whose size changed *)
(* makes the next step of the iteration raise RuntimeError.                 *)

\* Task subscribers: after its call each of them rejects the task, so that
\* the loop of task_send goes on; "reject" and "ret42" make no call.
ReentrantTaskCallbacks == {"reject", "ret42", "close_reject", "unsub_reject", "add_reject"}

\* Broadcast subscribers: after its call each of them returns.
ReentrantBroadcastCallbacks == {"ret42", "closer", "unsub", "adder"}

\* The identifier under which "adder" and "add_reject" register the
\* subscriber "ret42".
AddedIdentifier == "n"

\* The coordinator as a callback finds it.
Coordinator(t, b, r, c) ==
    [task_subscribers |-> t, broadcast_subscribers |-> b, rpc_subscribers |-> r,
     closed |-> c]

\* What a call made on the coordinator leaves: the coordinator and the error
\* it raised ("none": it returned).
Effect(self, error) == [self |-> self, error |-> error]

\* close(), lines 22-28
CloseOn(self) ==
    IF self.closed THEN Effect(self, "none")
    ELSE Effect(Coordinator(Released, Released, Released, TRUE), "none")

\* remove_task_subscriber (lines 66-70) and remove_broadcast_subscriber
\* (lines 82-86)
RemoveOn(self, reg, identifier) ==
    IF self.closed THEN Effect(self, CoordinatorConnectionError)
    ELSE IF reg = "task"
    THEN IF HasKey(self.task_subscribers, identifier)
         THEN Effect([self EXCEPT !.task_subscribers = DictPop(@, identifier)], "none")
         ELSE Effect(self, "ValueError")
    ELSE IF HasKey(self.broadcast_subscribers, identifier)
         THEN Effect([self EXCEPT !.broadcast_subscribers = DictPop(@, identifier)], "none")
         ELSE Effect(self, "ValueError")

\* add_task_subscriber (lines 52-57, the test reads the RPC registry) and
\* add_broadcast_subscriber (lines 73-79), with an explicit identifier
AddOn(self, reg, subscriber, identifier) ==
    IF self.closed THEN Effect(self, CoordinatorConnectionError)
    ELSE IF reg = "task"
    THEN IF HasKey(self.rpc_subscribers, identifier)
         THEN Effect(self, "RuntimeError")
         ELSE Effect([self EXCEPT !.task_subscribers = DictSet(@, identifier, subscriber)],
                     "none")
    ELSE IF HasKey(self.broadcast_subscribers, identifier)
         THEN Effect(self, "RuntimeError")
         ELSE Effect([self EXCEPT !.broadcast_subscribers = DictSet(@, identifier, subscriber)],
                     "none")

\* The call the callable registered as `identifier` in registry `reg` makes.
CallMade(subscriber, reg, identifier, self) ==
    CASE subscriber \in {"closer", "close_reject"} -> CloseOn(self)
      [] subscriber \in {"unsub", "unsub_reject"} -> RemoveOn(self, reg, identifier)
      [] subscriber \in {"adder", "add_reject"} -> AddOn(self, reg, "ret42", AddedIdentifier)
      [] OTHER -> Effect(self, "none")

\* subscriber(self, ...): the coordinator afterwards, and how the callable
\* ended: it returned, it raised TaskRejected, or the error of its call
\* passed through it.
Invocation(self, ended, error) == [self |-> self, ended |-> ended, error |-> error]

Invoke(subscriber, reg, identifier, self) ==
    LET made == CallMade(subscriber, reg, identifier, self)
    IN  IF made.error # "none" THEN Invocation(made.self, "raise", made.error)
        ELSE IF subscriber \in {"reject", "close_reject", "unsub_reject", "add_reject"}
        THEN Invocation(made.self, "reject", "TaskRejected")
        ELSE Invocation(made.self, "return", "none")

\* One invocation as the delivery records it: the entry, and whether the
\* coordinator was closed when the subscriber was called.
Invoked(entry, self) == [id |-> entry.id, cb |-> entry.cb, closed |-> self.closed]

\* The dict a loop iterates over: the registry while the coordinator is
\* open, the dict as it was once the attribute is deleted.
IteratedDict(values, reg, self) ==
    IF self.closed THEN values
    ELSE IF reg = "task" THEN self.task_subscribers ELSE self.broadcast_subscribers

ReentrantDelivery(self, invoked, future, raised) ==
    [self |-> self, invoked |-> invoked, future |-> future, raised |-> raised]

\* Lines 92-101: `for subscriber in self._task_subscribers.values():` from
\* position `pos` of the dict `values`, which held `used` entries when the
\* loop started.
RECURSIVE TaskLoop(_, _, _, _, _, _)
TaskLoop(values, used, pos, self, invoked, future) ==
    IF Len(values) # used
    THEN \* RuntimeError: dictionary changed size during iteration
         ReentrantDelivery(self, invoked, future, "RuntimeError")
    ELSE IF pos > Len(values)
    THEN ReentrantDelivery(self, invoked, future, "none")
    ELSE LET ran == Invoke(values[pos].cb, "task", values[pos].id, self)
             now == Append(invoked, Invoked(values[pos], self))
         IN  CASE ran.ended = "return" ->
                    ReentrantDelivery(ran.self, now,
                                      SetResult(future, ReturnValue(values[pos].cb)), "none")
               [] ran.ended = "reject" ->
                    TaskLoop(IteratedDict(values, "task", ran.self), used, pos + 1,
                             ran.self, now, future)
               [] OTHER ->
                    ReentrantDelivery(ran.self, now, SetException(future, ran.error), "none")

\* Lines 125-126: `for subscriber in self._broadcast_subscribers.values():`
RECURSIVE BroadcastLoop(_, _, _, _, _)
BroadcastLoop(values, used, pos, self, invoked) ==
    IF Len(values) # used
    THEN ReentrantDelivery(self, invoked, NoFuture, "RuntimeError")
    ELSE IF pos > Len(values)
    THEN ReentrantDelivery(self, invoked, NoFuture, "none")
    ELSE LET ran == Invoke(values[pos].cb, "broadcast", values[pos].id, self)
             now == Append(invoked, Invoked(values[pos], self))
         IN  IF ran.ended = "return"
             THEN BroadcastLoop(IteratedDict(values, "broadcast", ran.self), used, pos + 1,
                                ran.self, now)
             ELSE ReentrantDelivery(ran.self, now, NoFuture, ran.error)

\* The coordinator is left as the callbacks left it.
LeftAs(self) ==
    /\ task_subscribers' = self.task_subscribers
    /\ broadcast_subscribers' = self.broadcast_subscribers
    /\ rpc_subscribers' = self.rpc_subscribers
    /\ closed' = self.closed
    /\ TotalSubscribers(task_subscribers', broadcast_subscribers', rpc_subscribers')
           <= MaxSubscribers

\* task_send, lines 88-106
ReentrantTaskSend(no_reply) ==
    /\ IF EnsureOpenRaises
       THEN /\ last' = Raised("task_send", NoId, "none", no_reply,
                              CoordinatorConnectionError)
            /\ UNCHANGED coordVars
       ELSE \E d \in {TaskLoop(task_subscribers, Len(task_subscribers), 1,
                               Coordinator(task_subscribers, broadcast_subscribers,
                                           rpc_subscribers, closed),
                               <<>>, NewFuture)} :
                /\ LeftAs(d.self)
                /\ last' = Call("task_send", NoId, "none", no_reply,
                                IF d.raised = "none" THEN "ok" ELSE d.raised,
                                "none", d.invoked,
                                IF no_reply \/ d.raised # "none" THEN NoFuture ELSE d.future)
    /\ UNCHANGED <<thr, live, envelope, otherVars>>

\* broadcast_send, lines 123-127
ReentrantBroadcastSend(sender, subject) ==
    /\ envelope' = Envelope(sender, subject)
    /\ IF EnsureOpenRaises
       THEN /\ last' = Raised("broadcast_send", NoId, "none", FALSE,
                              CoordinatorConnectionError)
            /\ UNCHANGED coordVars
       ELSE \E d \in {BroadcastLoop(broadcast_subscribers, Len(broadcast_subscribers), 1,
                                    Coordinator(task_subscribers, broadcast_subscribers,
                                                rpc_subscribers, closed),
                                    <<>>)} :
                /\ LeftAs(d.self)
                /\ last' = Call("broadcast_send", NoId, "none", FALSE,
                                IF d.raised = "none" THEN "ok" ELSE d.raised,
                                IF d.raised = "none" THEN "True" ELSE "none",
                                d.invoked, NoFuture)
    /\ UNCHANGED <<thr, live, otherVars>>

\* One caller registers subscribers that call the coordinator, and sends.
NextReentrant ==
    \/ \E subscriber \in ReentrantTaskCallbacks, identifier \in Identifiers :
           AddTaskSubscriber(subscriber, identifier, NoId)
    \/ \E subscriber \in ReentrantBroadcastCallbacks, identifier \in Identifiers :
           AddBroadcastSubscriber(subscriber, NoFilter, NoFilter, identifier, NoId)
    \/ \E no_reply \in BOOLEAN : ReentrantTaskSend(no_reply)
    \/ ReentrantBroadcastSend(NoSender, NoSubject)

SpecReentrant == Init /\ [][NextReentrant]_vars

----------------------------------------------------------------------------
(* The add_* and remove_* methods called from two threads.  The class has  *)
(* no lock.  The interpreter may switch threads between any two bytecodes, *)
(* so the membership test and the store of an add are separate steps; a    *)
(* single dict operation (in, d[k] = v, pop) is one step.                  *)
(*                                                                         *)
(* The threads use the RPC and the broadcast registry, whose membership    *)
(* test reads the registry that is stored to, and pass explicit            *)
(* identifiers.                                                            *)

ThreadRegistries == {"rpc", "broadcast"}

Registry(reg) ==
    CASE reg = "task"      -> task_subscribers
      [] reg = "rpc"       -> rpc_subscribers
      [] reg = "broadcast" -> broadcast_subscribers

\* The registry the `if identifier in ...` of add_<reg>_subscriber reads.
CheckedRegistry(reg) == IF reg = "task" THEN rpc_subscribers ELSE Registry(reg)

SetRegistry(reg, new) ==
    /\ task_subscribers' = IF reg = "task" THEN new ELSE task_subscribers
    /\ rpc_subscribers' = IF reg = "rpc" THEN new ELSE rpc_subscribers
    /\ broadcast_subscribers' = IF reg = "broadcast" THEN new ELSE broadcast_subscribers

Returned(t, outcome) == [thr EXCEPT ![t].pc = "idle", ![t].outcome = outcome]

\* Thread t enters add_<reg>_subscriber or remove_<reg>_subscriber:
\* _ensure_open(), then `identifier or shortuuid.uuid()`.
ThreadCall(t, op, reg, subscriber, identifier) ==
    /\ thr[t].pc = "idle"
    /\ thr[t].calls < MaxCalls
    /\ thr' = [thr EXCEPT ![t] =
                  [pc |-> IF EnsureOpenRaises THEN "idle"
                          ELSE IF op = "add" THEN "check" ELSE "pop",
                   op |-> op, reg |-> reg,
                   id |-> identifier,
                   cb |-> IF op = "add" THEN subscriber ELSE "none",
                   outcome |-> IF EnsureOpenRaises THEN CoordinatorConnectionError
                               ELSE "running",
                   calls |-> thr[t].calls + 1]]
    /\ UNCHANGED <<coordVars, last, live, envelope, otherVars>>

\* `if identifier in self._<reg>_subscribers: raise RuntimeError(...)`
ThreadCheck(t) ==
    /\ thr[t].pc = "check"
    /\ thr' = IF HasKey(CheckedRegistry(thr[t].reg), thr[t].id)
              THEN Returned(t, "RuntimeError")
              ELSE [thr EXCEPT ![t].pc = "store"]
    /\ UNCHANGED <<coordVars, last, live, envelope, otherVars>>

\* `self._<reg>_subscribers[identifier] = subscriber; return identifier`
ThreadStore(t) ==
    /\ thr[t].pc = "store"
    /\ SetRegistry(thr[t].reg, DictSet(Registry(thr[t].reg), thr[t].id, thr[t].cb))
    /\ thr' = Returned(t, "ok")
    /\ live' = live \cup {[reg |-> thr[t].reg, id |-> thr[t].id, cb |-> thr[t].cb,
                           by |-> t]}
    /\ UNCHANGED <<closed, last, envelope, otherVars>>

\* `self._<reg>_subscribers.pop(identifier)`, KeyError turned into ValueError
ThreadPop(t) ==
    /\ thr[t].pc = "pop"
    /\ IF HasKey(Registry(thr[t].reg), thr[t].id)
       THEN /\ SetRegistry(thr[t].reg, DictPop(Registry(thr[t].reg), thr[t].id))
            /\ thr' = Returned(t, "ok")
            /\ live' = {x \in live : ~(x.reg = thr[t].reg /\ x.id = thr[t].id)}
       ELSE /\ thr' = Returned(t, "ValueError")
            /\ UNCHANGED <<task_subscribers, rpc_subscribers, broadcast_subscribers,
                           live>>
    /\ UNCHANGED <<closed, last, envelope, otherVars>>

NextThreads ==
    \/ \E t \in Threads, op \in {"add", "remove"}, reg \in ThreadRegistries,
          subscriber \in RpcCallbacks, identifier \in Identifiers :
           ThreadCall(t, op, reg, subscriber, identifier)
    \/ \E t \in Threads : ThreadCheck(t)
    \/ \E t \in Threads : ThreadStore(t)
    \/ \E t \in Threads : ThreadPop(t)

SpecThreads == Init /\ [][NextThreads]_vars

----------------------------------------------------------------------------
(* Properties. *)

AddOps == {"add_task", "add_rpc", "add_broadcast"}

RemoveOps == {"remove_task", "remove_rpc", "remove_broadcast"}

SendOps == {"task_send", "rpc_send", "broadcast_send"}

\* The registry an add_* or remove_* call is about.
RegistryOf(op) ==
    CASE op \in {"add_task", "remove_task"}           -> "task"
      [] op \in {"add_rpc", "remove_rpc"}             -> "rpc"
      [] op \in {"add_broadcast", "remove_broadcast"} -> "broadcast"

RegistryAfter(reg) ==
    CASE reg = "task"      -> task_subscribers'
      [] reg = "rpc"       -> rpc_subscribers'
      [] reg = "broadcast" -> broadcast_subscribers'

\* The last call was a task_send on an open coordinator.
TaskSendRan == last.op = "task_send" /\ last.outcome # CoordinatorConnectionError

\* C1: task_send offers the message to the task subscribers in the order of
\* the registry, each at most once: what it invoked is a prefix of the
\* registry, every subscriber before the last invoked one rejected, it stops
\* short of the end only at a subscriber that did not reject, and when that
\* subscriber returned, the future holds its return value, set once.
C1_TaskSendFirstAccepting ==
    TaskSendRan =>
        LET subs == task_subscribers
            n == Len(last.invoked)
        IN  /\ n <= Len(subs)
            /\ \A i \in 1..n : last.invoked[i] = subs[i]
            /\ \A i \in 1..n : i < n => Behaviour(subs[i].cb) = "reject"
            /\ n < Len(subs) => (n >= 1 /\ Behaviour(subs[n].cb) # "reject")
            /\ (n >= 1 /\ Behaviour(subs[n].cb) = "return" /\ ~last.no_reply)
                   => last.future = [state |-> "result",
                                     value |-> ReturnValue(subs[n].cb),
                                     error |-> "none", sets |-> 1]

\* The chain [reject, reject, return 42]: three invocations, resolved to 42.
C1_Witness ==
    /\ TaskSendRan
    /\ Len(last.invoked) = 3
    /\ Behaviour(last.invoked[1].cb) = "reject"
    /\ Behaviour(last.invoked[2].cb) = "reject"
    /\ last.future.state = "result"
    /\ last.future.value = "42"

\* C2: a task_send with no_reply=false that finds no subscriber, or only
\* rejecting ones, either fails or returns a future that is resolved.
C2_TaskSendDefinedOutcome ==
    ( /\ TaskSendRan
      /\ ~last.no_reply
      /\ \A i \in DOMAIN task_subscribers :
             Behaviour(task_subscribers[i].cb) = "reject" )
        => \/ last.outcome # "ok"
           \/ last.future.state \in {"result", "exception"}

\* C3: broadcast_send invokes every registered broadcast subscriber exactly
\* once per call, also when one invoked earlier raised.
C3_BroadcastReachesAll ==
    (last.op = "broadcast_send" /\ last.outcome # CoordinatorConnectionError)
        => /\ Len(last.invoked) = Len(broadcast_subscribers)
           /\ \A i \in DOMAIN broadcast_subscribers :
                  \E j \in DOMAIN last.invoked :
                      last.invoked[j] = broadcast_subscribers[i]

\* C4: an add_*_subscriber with an explicit identifier that its registry
\* already holds raises the conflict error and leaves the registries as they
\* were.
C4_DuplicateIdentifierRejected ==
    [][ ( /\ last'.op \in AddOps
          /\ ~closed
          /\ ~Falsy(last'.id)
          /\ HasKey(Registry(RegistryOf(last'.op)), last'.id) )
            => (last'.outcome = "RuntimeError" /\ UNCHANGED coordVars) ]_vars

\* C5: whether add_X_subscriber accepts an explicit identifier depends on
\* registry X alone: an identifier that registry X does not hold is accepted
\* whatever the other registries hold, and an add or remove on one registry
\* leaves the other two as they were.
C5_RegistriesIndependent ==
    [][ /\ ( /\ last'.op \in AddOps
             /\ ~closed
             /\ ~Falsy(last'.id)
             /\ ~HasKey(Registry(RegistryOf(last'.op)), last'.id) )
               => last'.outcome = "ok"
        /\ last'.op \in AddOps \cup RemoveOps
               => \A reg \in {"task", "rpc", "broadcast"} \ {RegistryOf(last'.op)} :
                      RegistryAfter(reg) = Registry(reg) ]_vars

C6ClosedState ==
    closed =>
        /\ last.op \in AddOps \cup RemoveOps \cup SendOps
               => /\ last.outcome = CoordinatorConnectionError
                  /\ last.invoked = <<>>
                  /\ last.future = NoFuture
                  /\ last.ret = "none"
        /\ last.op \in AddOps \cup RemoveOps \cup SendOps \cup {"close", "is_closed"}
        /\ last.op = "is_closed" => last.ret = "True"
        /\ last.op = "close" => last.outcome = "ok"

C6SecondClose ==
    (closed /\ last'.op = "close") => (last'.outcome = "ok" /\ UNCHANGED coordVars)

\* C6: on a closed coordinator every add, remove and send raises the
\* connection error (never the not-found, conflict or unknown-recipient
\* error), invokes no subscriber and returns nothing; is_closed() returns
\* true; a second close() returns normally and changes nothing.
C6_ClosedCoordinatorFails == []C6ClosedState /\ [][C6SecondClose]_vars

\* A remove on a closed coordinator: the connection error, not the not-found one.
C6_Witness ==
    /\ closed
    /\ last.op = "remove_task"
    /\ last.outcome = CoordinatorConnectionError

\* C7: rpc_send to an identifier the RPC registry does not hold raises,
\* invokes nobody and returns no future; to a registered one it invokes that
\* subscriber once and nobody else, and returns a future set exactly once, to
\* the subscriber's return value or to its failure.
C7_RpcSendOneRecipient ==
    (last.op = "rpc_send" /\ last.outcome # CoordinatorConnectionError) =>
        IF ~HasKey(rpc_subscribers, last.id)
        THEN /\ last.outcome = "RuntimeError"
             /\ last.invoked = <<>>
             /\ last.future = NoFuture
        ELSE LET subscriber == DictGet(rpc_subscribers, last.id)
             IN  /\ last.outcome = "ok"
                 /\ last.invoked = <<[id |-> last.id, cb |-> subscriber]>>
                 /\ last.future.sets = 1
                 /\ IF Behaviour(subscriber) = "return"
                    THEN /\ last.future.state = "result"
                         /\ last.future.value = ReturnValue(subscriber)
                    ELSE /\ last.future.state = "exception"
                         /\ last.future.error = RaisedError(subscriber)

\* An rpc_send whose recipient failed, with another RPC subscriber and a task
\* subscriber registered and not invoked.
C7_Witness ==
    /\ last.op = "rpc_send"
    /\ last.future.state = "exception"
    /\ Len(last.invoked) = 1
    /\ Len(rpc_subscribers) = 2
    /\ Len(task_subscribers) = 1

\* C8: when a task subscriber raises something other than the rejection,
\* task_send invokes nobody after it and returns normally, and the future it
\* returns holds a failure that carries the subscriber's error; the rejection
\* reaches neither the caller nor the future.
C8_TaskSendFailureStopsDelivery ==
    TaskSendRan =>
        /\ last.outcome = "ok"
        /\ last.future.error # "TaskRejected"
        /\ \A i \in DOMAIN last.invoked :
               Behaviour(last.invoked[i].cb) = "raise" =>
                   /\ i = Len(last.invoked)
                   /\ i <= Len(task_subscribers)
                   /\ last.invoked[i] = task_subscribers[i]
                   /\ ~last.no_reply =>
                          last.future = [state |-> "exception",
                                         value |-> "RuntimeError",
                                         error |-> RaisedError(last.invoked[i].cb),
                                         sets |-> 1]

\* [reject, boom, ...]: the second subscriber fails, the third is not invoked.
C8_Witness ==
    /\ TaskSendRan
    /\ Len(task_subscribers) = 3
    /\ Len(last.invoked) = 2
    /\ Behaviour(last.invoked[1].cb) = "reject"
    /\ Behaviour(last.invoked[2].cb) = "raise"
    /\ last.future.state = "exception"
    /\ last.future.error = "Boom"

\* C9: a successful add_*_subscriber followed by remove_*_subscriber with the
\* returned identifier gives back the registry as it was before the add; a
\* remove of an identifier the registry holds succeeds and leaves it without
\* that identifier (so a second remove finds nothing); a remove of an
\* identifier the registry does not hold raises the not-found error and
\* changes nothing.
C9_AddRemoveRoundTrip ==
    [][ /\ (last'.op \in AddOps /\ last'.outcome = "ok")
               => LET reg == RegistryOf(last'.op)
                  IN  /\ HasKey(RegistryAfter(reg), last'.ret)
                      /\ DictPop(RegistryAfter(reg), last'.ret) = Registry(reg)
        /\ (last'.op \in RemoveOps /\ ~closed)
               => LET reg == RegistryOf(last'.op)
                  IN  IF HasKey(Registry(reg), last'.id)
                      THEN /\ last'.outcome = "ok"
                           /\ RegistryAfter(reg) = DictPop(Registry(reg), last'.id)
                           /\ ~HasKey(RegistryAfter(reg), last'.id)
                      ELSE /\ last'.outcome = "ValueError"
                           /\ UNCHANGED coordVars ]_vars

\* C10: with two threads calling add_* and remove_*, at most one successful
\* registration holds an identifier of a registry at a time (of two
\* concurrent adds of the same identifier one gets the conflict error), and
\* every registration that returned successfully and was not removed is
\* still bound to its own callback.
C10_NoLostRegistration ==
    /\ \A x, y \in live : (x.reg = y.reg /\ x.id = y.id) => x = y
    /\ \A x \in live :
           /\ HasKey(Registry(x.reg), x.id)
           /\ DictGet(Registry(x.reg), x.id) = x.cb

\* C12: task messages are never queued.  A task_send invokes only entries
\* the task registry holds at the call and leaves the coordinator's state as
\* it was, so nothing of the message stays behind; and no call other than a
\* send invokes a subscriber, so a subscriber registered later never gets a
\* message sent before.
C12_TaskNeverQueued ==
    [][ /\ last'.op = "task_send"
            => /\ UNCHANGED coordVars
               /\ \A j \in DOMAIN last'.invoked :
                      \E i \in DOMAIN task_subscribers :
                          task_subscribers[i] = last'.invoked[j]
        /\ last'.op \notin SendOps
            => (last'.invoked = <<>> /\ last'.future = NoFuture) ]_vars

\* An accepting subscriber has just been registered next to one that rejects,
\* and the registration invoked nobody.
C12_Witness ==
    /\ last.op = "add_task"
    /\ last.outcome = "ok"
    /\ Behaviour(last.cb) = "return"
    /\ \E i \in DOMAIN task_subscribers : Behaviour(task_subscribers[i].cb) = "reject"
    /\ last.invoked = <<>>

----------------------------------------------------------------------------
(* Broadcasts with filters.  add_broadcast_subscriber takes subject_filters *)
(* and sender_filters, broadcast_send takes sender and subject; this        *)
(* specification draws them from Subjects and Senders.                      *)

NextBroadcast ==
    \/ \E subscriber \in FilteredCallbacks, identifier \in IdentifierArgs :
           \E uuid \in UuidChoices(identifier) :
               AddBroadcastSubscriber(subscriber, SubjectFiltersOf(subscriber),
                                      SenderFiltersOf(subscriber), identifier, uuid)
    \/ \E identifier \in KnownIdentifiers : RemoveBroadcastSubscriber(identifier)
    \/ \E sender \in Senders \cup {NoSender}, subject \in Subjects \cup {NoSubject} :
           BroadcastSend(sender, subject)

SpecBroadcast == Init /\ [][NextBroadcast]_vars

\* The broadcast in `envelope` passes the filters `subscriber` was registered with.
PassesFilters(subscriber) ==
    /\ Matches(SubjectFiltersOf(subscriber), envelope.subject)
    /\ Matches(SenderFiltersOf(subscriber), envelope.sender)

\* C11: broadcast_send invokes a registered broadcast subscriber exactly when
\* the subject and the sender of the broadcast match the filters it was
\* registered with; a subscriber without filters is invoked for every
\* broadcast.
C11_BroadcastFiltersHonoured ==
    (last.op = "broadcast_send" /\ last.outcome = "ok")
        => \A i \in DOMAIN broadcast_subscribers :
               (\E j \in DOMAIN last.invoked :
                    last.invoked[j] = broadcast_subscribers[i])
                   <=> PassesFilters(broadcast_subscribers[i].cb)

----------------------------------------------------------------------------
(* The daemon worker, aiida/engine/daemon/worker.py.                        *)
(*                                                                          *)
(* start_daemon_worker runs in the main thread up to runner.start(), which  *)
(* runs the event loop.  The loop keeps a FIFO queue of ready handles and   *)
(* runs it in batches: one iteration first turns pending I/O events into    *)
(* handles, then runs the handles that are ready at that moment; handles    *)
(* added meanwhile wait for the next iteration, and a stop() takes effect   *)
(* at the end of the iteration.  A signal reaches the loop as a byte in its *)
(* self-pipe; the reader of the pipe queues the handler the worker          *)
(* installed, and the handler creates a task that runs shutdown_worker.     *)

nonDaemonVars == <<rpc_subscribers, broadcast_subscribers, closed, thr, live,
                   envelope, schedVars, rendered>>

\* The callable create_daemon_runner registers: the ProcessLauncher.
TaskReceiver == "task_receiver"

\* The positions of start_daemon_worker at which the process is running.
Alive == {"begin", "try", "manager", "runner", "set", "install", "running"}

\* What a step of the startup raises, if anything.
NoError == "none"
StartupOutcomes == {NoError, "ConfigurationError", "Boom"}

\* The call start_daemon_worker().
StartDaemonWorker ==
    /\ worker.pc = "idle"
    /\ worker' = [worker EXCEPT !.pc = "begin"]
    /\ UNCHANGED <<task_subscribers, last, loop, atasks, runner, nonDaemonVars>>

\* get_daemon_client() and configure_logging(...), before the try block: an
\* error here leaves the function without being logged.
ConfigureLogging(error) ==
    /\ worker.pc = "begin"
    /\ worker' = IF error = NoError
                 THEN [worker EXCEPT !.pc = "try"]
                 ELSE [worker EXCEPT !.pc = "raised", !.raised = error,
                                     !.failed_at = "configure_logging",
                                     !.failed_with = error]
    /\ UNCHANGED <<task_subscribers, last, loop, atasks, runner, nonDaemonVars>>

\* A handler that logs the error and goes on.
StartupRaisesSwallowed(w, step, error, next) ==
    [w EXCEPT !.pc = next, !.logged = TRUE, !.failed_at = step,
              !.failed_with = error]

\* The step `step` of the try block raised `error`:
\* except Exception: LOGGER.exception('daemon worker failed to start'); raise
StartupRaises(w, step, error, next) ==
    [w EXCEPT !.pc = "raised", !.logged = TRUE, !.raised = error,
              !.failed_at = step, !.failed_with = error]

\* manager = get_manager()
GetManager(error) ==
    /\ worker.pc = "try"
    /\ worker' = IF error = NoError THEN [worker EXCEPT !.pc = "manager"]
                 ELSE StartupRaises(worker, "get_manager", error, "manager")
    /\ UNCHANGED <<task_subscribers, last, loop, atasks, runner, nonDaemonVars>>

\* runner = create_daemon_runner(manager): manager.create_runner(...) and the
\* ProcessLauncher(...) may raise; then the receiver is registered with
\* runner.coordinator.add_task_subscriber(task_receiver), with no identifier.
CreateDaemonRunner(error, uuid) ==
    /\ worker.pc = "manager"
    /\ IF error = NoError
       THEN LET id == ResolveIdentifier(NoId, uuid)
            IN  /\ task_subscribers' = DictSet(task_subscribers, id, TaskReceiver)
                /\ last' = Call("add_task", NoId, TaskReceiver, FALSE, "ok", id,
                                <<>>, NoFuture)
                /\ worker' = [worker EXCEPT !.pc = "runner"]
       ELSE /\ worker' = StartupRaises(worker, "create_daemon_runner", error, "runner")
            /\ UNCHANGED <<task_subscribers, last>>
    /\ UNCHANGED <<loop, atasks, runner, nonDaemonVars>>

\* manager.set_runner(runner)
SetRunner(error) ==
    /\ worker.pc = "runner"
    /\ worker' = IF error = NoError THEN [worker EXCEPT !.pc = "set"]
                 ELSE StartupRaises(worker, "set_runner", error, "set")
    /\ UNCHANGED <<task_subscribers, last, loop, atasks, runner, nonDaemonVars>>

\* if isinstance(rlimit := get_config_option('daemon.recursion_limit'), int):
\*     sys.setrecursionlimit(rlimit)
SetRecursionLimit(configured) ==
    /\ worker.pc = "set"
    /\ worker' = [worker EXCEPT !.pc = "install",
                                !.rlimit = IF configured THEN "configured" ELSE @]
    /\ UNCHANGED <<task_subscribers, last, loop, atasks, runner, nonDaemonVars>>

\* for s in signals: runner.loop.add_signal_handler(s, lambda ...): one turn
\* of the loop.
InstallSignalHandler ==
    /\ worker.pc = "install"
    /\ Cardinality(worker.handlers) < Len(Signals)
    /\ worker' = [worker EXCEPT
                      !.handlers = @ \cup {Signals[Cardinality(worker.handlers) + 1]}]
    /\ UNCHANGED <<task_subscribers, last, loop, atasks, runner, nonDaemonVars>>

\* The for loop over `signals` has ended.
HandlersInstalled == Cardinality(worker.handlers) = Len(Signals)

\* runner.close(): the runner's own code is not part of this file; it stops
\* the loop of the runner.
RunnerClose(r) == [r EXCEPT !.closes = @ + 1]

\* A start that does not wait for the for loop over `signals`.
RunnerStartEarly(raises) ==
    /\ worker.pc = "install"
    /\ ~raises
    /\ worker' = [worker EXCEPT !.pc = "running", !.entered = TRUE]
    /\ UNCHANGED <<task_subscribers, last, loop, atasks, runner, nonDaemonVars>>

\* runner.start(): the loop is entered; or start raises SystemError, and the
\* handler closes the runner and the function returns.
RunnerStart(raises) ==
    /\ worker.pc = "install"
    /\ HandlersInstalled
    /\ IF raises
       THEN /\ runner' = RunnerClose(runner)
            /\ worker' = [worker EXCEPT !.pc = "returned"]
       ELSE /\ worker' = [worker EXCEPT !.pc = "running", !.entered = TRUE]
            /\ UNCHANGED runner
    /\ UNCHANGED <<task_subscribers, last, loop, atasks, nonDaemonVars>>

\* The operating system delivers a signal.  With a handler installed on the
\* loop its number is written to the self-pipe of the loop; without one the
\* default disposition ends the process.
SignalArrives(sig, budget) ==
    /\ worker.pc \in Alive
    /\ loop.arrived < budget
    /\ IF sig \in worker.handlers
       THEN /\ loop' = [loop EXCEPT !.pipe = Append(@, sig), !.arrived = @ + 1]
            /\ UNCHANGED worker
       ELSE /\ loop' = [loop EXCEPT !.arrived = @ + 1]
            /\ worker' = [worker EXCEPT !.pc = "killed"]
    /\ UNCHANGED <<task_subscribers, last, atasks, runner, nonDaemonVars>>

\* The task receiver schedules a process continuation on the loop (steady
\* state, before any signal): asyncio.create_task.  Tasks get their
\* numbers in the order of creation.
ScheduleTask(x, reaction) ==
    /\ worker.pc = "running"
    /\ loop.arrived = 0
    /\ atasks[x].status = "absent"
    /\ \A y \in WorkIds : y < x => atasks[y].status # "absent"
    /\ atasks' = [atasks EXCEPT ![x] = NewTask("work", reaction)]
    /\ loop' = [loop EXCEPT !.ready = Append(@, StepHandle(x))]
    /\ UNCHANGED <<task_subscribers, last, worker, runner, nonDaemonVars>>

\* The shutdown tasks in the order of their creation.
ShutdownSeq == [i \in 1 .. MaxSignals |-> MaxTasks + i]

\* A task becomes done: its done callbacks are queued, one for every gather
\* that waits for it, in the order in which the gathers were made.
Finish(st, x, outcome) ==
    LET waiting == SelectSeq(ShutdownSeq,
                       LAMBDA s : /\ st.tasks[s].status = "waiting"
                                  /\ x \in st.tasks[s].children)
    IN  [tasks |-> [st.tasks EXCEPT ![x].status = outcome],
         ready |-> st.ready \o [i \in DOMAIN waiting |-> GatherHandle(waiting[i], x)]]

\* task.cancel().  A done task is left alone.  A task whose step is queued
\* gets the cancellation at that step.  A continuation suspended at an await
\* has the awaited future cancelled, which queues its wakeup (see Woken).
\* A task suspended at a gather has the gather cancelled: that cancels the
\* children of the gather, and the task gets the cancellation when the last
\* of them is done.
CancelTask(t) ==
    IF t.status \in Finished \cup {"absent"}
    THEN t
    ELSE IF t.status = "waiting" /\ t.kind = "work"
    THEN [t EXCEPT !.status = "scheduled", !.must_cancel = TRUE]
    ELSE [t EXCEPT !.must_cancel = TRUE]

\* The tasks among `tasks` whose wakeup a cancel() queues.
Woken(tasks) ==
    {x \in tasks : atasks[x].kind = "work" /\ atasks[x].status = "waiting"}

\* The loop is inside runner.start() and has handles left in this iteration.
Running == worker.pc = "running" /\ loop.ntodo > 0

\* The state with the head of the ready queue taken off.
Popped == [tasks |-> atasks, ready |-> Tail(loop.ready)]

\* One iteration of the loop begins: a readable self-pipe queues its reader,
\* and the handles ready now make up the iteration.  With nothing ready the
\* loop waits in select.  After a stop() the loop ends instead, runner.start()
\* returns, and start_daemon_worker logs and returns.
RunOnce ==
    /\ worker.pc = "running"
    /\ loop.ntodo = 0
    /\ IF loop.stopping
       THEN /\ worker' = [worker EXCEPT !.pc = "returned"]
            /\ UNCHANGED loop
       ELSE /\ loop.ready # <<>> \/ loop.pipe # <<>>
            /\ LET ready == IF loop.pipe # <<>>
                            THEN Append(loop.ready, ReadSelfHandle)
                            ELSE loop.ready
               IN  loop' = [loop EXCEPT !.ready = ready, !.ntodo = Len(ready)]
            /\ UNCHANGED worker
    /\ UNCHANGED <<task_subscribers, last, atasks, runner, nonDaemonVars>>

\* The reader of the self-pipe: every signal number read queues the handler
\* installed for it.
ReadFromSelf ==
    /\ Running
    /\ Head(loop.ready).h = "read_self"
    /\ loop' = [loop EXCEPT
                    !.ready = Tail(@) \o [i \in DOMAIN loop.pipe |-> SignalHandle(loop.pipe[i])],
                    !.pipe = <<>>,
                    !.ntodo = @ - 1]
    /\ UNCHANGED <<task_subscribers, last, worker, atasks, runner, nonDaemonVars>>

\* The handler of line 98: lambda s=s: asyncio.create_task(shutdown_worker(runner))
HandleSignal ==
    /\ Running
    /\ Head(loop.ready).h = "signal"
    /\ LET s == MaxTasks + loop.handled + 1
       IN  /\ atasks' = [atasks EXCEPT ![s] = NewTask("shutdown", "none")]
           /\ loop' = [loop EXCEPT !.ready = Append(Tail(@), StepHandle(s)),
                                   !.handled = @ + 1,
                                   !.ntodo = @ - 1]
    /\ UNCHANGED <<task_subscribers, last, worker, runner, nonDaemonVars>>

\* A step of a scheduled continuation.  Cancelled before its first step it
\* never runs; at its first step it runs up to its first await; woken by a
\* cancellation it reacts as its coroutine does.
StepWork ==
    /\ Running
    /\ Head(loop.ready).h = "step"
    /\ LET x == Head(loop.ready).of
           t == atasks[x]
           st == IF ~t.started
                 THEN IF t.must_cancel
                      THEN Finish(Popped, x, "cancelled")
                      ELSE [Popped EXCEPT !.tasks[x].started = TRUE,
                                          !.tasks[x].status = "waiting"]
                 ELSE CASE t.reaction = "cancel" -> Finish(Popped, x, "cancelled")
                        [] t.reaction = "raise"  -> Finish(Popped, x, "failed")
                        [] t.reaction = "return" -> Finish(Popped, x, "returned")
                        [] t.reaction = "ignore" ->
                               [Popped EXCEPT !.tasks[x].status = "waiting",
                                              !.tasks[x].must_cancel = FALSE]
       IN  /\ t.kind = "work"
           /\ atasks' = st.tasks
           /\ loop' = [loop EXCEPT !.ready = st.ready, !.ntodo = @ - 1]
    /\ UNCHANGED <<task_subscribers, last, worker, runner, nonDaemonVars>>

\* The done callback of a gather: when the last child is done the gather is
\* done and the task awaiting it is woken.
GatherDoneCallback ==
    /\ Running
    /\ Head(loop.ready).h = "gathered"
    /\ LET s == Head(loop.ready).of
           n == atasks[s].nfinished + 1
           last_one == n = Cardinality(atasks[s].children)
       IN  /\ atasks' = [atasks EXCEPT
                             ![s].nfinished = n,
                             ![s].status = IF last_one THEN "scheduled" ELSE @]
           /\ loop' = [loop EXCEPT
                           !.ready = IF last_one
                                     THEN Append(Tail(@), StepHandle(s))
                                     ELSE Tail(@),
                           !.ntodo = @ - 1]
    /\ UNCHANGED <<task_subscribers, last, worker, runner, nonDaemonVars>>

\* An enumeration that does not leave out the current task.
AllTasksWithCurrent(s) ==
    {x \in TaskIds : atasks[x].status \in {"scheduled", "waiting"}}

\* [task for task in all_tasks() if task is not current_task()]: all_tasks()
\* gives the tasks of the loop that are not done.
AllTasksExceptCurrent(s) ==
    {x \in TaskIds \ {s} : atasks[x].status \in {"scheduled", "waiting"}}

\* Lines 30-35 of shutdown_worker, run by task s up to the await: the tasks
\* are enumerated, each is cancelled, and the gather over them is made.
\* all_tasks() is a set, so the cancellations come in some order, and
\* `wakeups` is the order in which they queue the wakeups.  (The children
\* of a gather that is cancelled here are tasks of the loop that are not
\* done, so they are among the enumerated tasks.)
CancelEnumerated(s, tasks, wakeups) ==
    LET cancelled == [x \in TaskIds |->
                         IF x \in tasks
                         THEN [CancelTask(atasks[x]) EXCEPT !.cancelled_by = @ \cup {s}]
                         ELSE atasks[x]]
    IN  [tasks |-> [cancelled EXCEPT ![s].started = TRUE, ![s].children = tasks],
         ready |-> Tail(loop.ready)
                       \o [i \in DOMAIN wakeups |-> StepHandle(wakeups[i])]]

\* A shutdown that closes the runner without waiting for the gather.
CloseAfterGatherNoWait(st, s) ==
    Finish([st EXCEPT !.tasks[s].closed = TRUE], s, "returned")

\* Line 35, await asyncio.gather(*tasks, return_exceptions=True), at the
\* first step of task s: a gather over no task is done already and the
\* coroutine goes on to runner.close() (line 36) in the same step; otherwise
\* the task is suspended until the gather is done.
CloseAfterGather(st, s) ==
    IF st.tasks[s].children = {}
    THEN Finish([st EXCEPT !.tasks[s].closed = TRUE], s, "returned")
    ELSE [st EXCEPT !.tasks[s].status = "waiting"]

\* A step of a task that runs shutdown_worker(runner).  Cancelled before its
\* first step it never runs.  Its first step runs lines 30-35.  Woken when
\* the gather is done, it ends with CancelledError if it was cancelled
\* meanwhile; otherwise it calls runner.close() and returns: the results of
\* the gathered tasks, exceptions included, are dropped.
StepShutdown ==
    /\ Running
    /\ Head(loop.ready).h = "step"
    /\ LET s == Head(loop.ready).of
           t == atasks[s]
       IN  /\ t.kind = "shutdown"
           /\ \E wakeups \in Orders(Woken(AllTasksExceptCurrent(s))) :
                  LET tasks == AllTasksExceptCurrent(s)
                      st == IF t.must_cancel
                            THEN Finish(Popped, s, "cancelled")
                            ELSE IF ~t.started
                            THEN CloseAfterGather(CancelEnumerated(s, tasks, wakeups), s)
                            ELSE Finish([Popped EXCEPT !.tasks[s].closed = TRUE],
                                        s, "returned")
                      closes == st.tasks[s].closed
                  IN  /\ atasks' = st.tasks
                      /\ loop' = [loop EXCEPT
                                      !.ready = st.ready,
                                      !.ntodo = @ - 1,
                                      !.stopping = @ \/ closes]
                      /\ runner' = IF closes THEN RunnerClose(runner) ELSE runner
    /\ UNCHANGED <<task_subscribers, last, worker, nonDaemonVars>>

\* What the main thread does.
WorkerStep ==
    \/ StartDaemonWorker
    \/ \E error \in StartupOutcomes : ConfigureLogging(error)
    \/ \E error \in StartupOutcomes : GetManager(error)
    \/ \E error \in StartupOutcomes, uuid \in UuidChoices(NoId) :
           CreateDaemonRunner(error, uuid)
    \/ \E error \in StartupOutcomes : SetRunner(error)
    \/ \E configured \in BOOLEAN : SetRecursionLimit(configured)
    \/ InstallSignalHandler
    \/ \E raises \in BOOLEAN : RunnerStart(raises)

\* What the loop does inside runner.start().
LoopStep ==
    \/ RunOnce
    \/ ReadFromSelf
    \/ HandleSignal
    \/ StepWork
    \/ StepShutdown
    \/ GatherDoneCallback

\* What comes from outside: the continuations scheduled in steady state and
\* the signals.
Environment(budget) ==
    \/ \E x \in WorkIds, reaction \in Reactions : ScheduleTask(x, reaction)
    \/ \E i \in DOMAIN Signals : SignalArrives(Signals[i], budget)

NextDaemon == WorkerStep \/ LoopStep \/ Environment(MaxSignals)

SpecDaemon == Init /\ [][NextDaemon]_vars

\* The worker with one signal delivered.
NextShutdown == WorkerStep \/ LoopStep \/ Environment(1)

SpecShutdown == Init /\ [][NextShutdown]_vars

\* The main thread runs start_daemon_worker to its end and the loop runs as
\* long as it has something to run; nothing is assumed about when tasks are
\* scheduled and signals arrive.
FairShutdown == SpecShutdown /\ WF_vars(WorkerStep) /\ WF_vars(LoopStep)

----------------------------------------------------------------------------
(* Claims about the daemon worker. *)

\* The tasks that run shutdown_worker, and the continuations on the loop.
ShutdownTasks == {s \in ShutdownIds : atasks[s].status # "absent"}
WorkTasks == {x \in WorkIds : atasks[x].status # "absent"}

\* The shutdown tasks that have run lines 30-35.
StartedShutdowns == {s \in ShutdownTasks : atasks[s].started}

\* C13 (what may never happen): a shutdown task has asked every one of the N
\* tasks on the loop to cancel once it has run, it has not cancelled
\* itself, and runner.close() was called at most once, by a shutdown task
\* that returned.
C13_Safety ==
    /\ runner.closes <= 1
    /\ \A s \in ShutdownTasks :
           /\ s \notin atasks[s].cancelled_by
           /\ ~atasks[s].must_cancel
           /\ atasks[s].closed => (runner.closes = 1 /\ atasks[s].status = "returned")
    /\ \A s \in StartedShutdowns :
           /\ atasks[s].children = WorkTasks
           /\ \A x \in WorkTasks : s \in atasks[x].cancelled_by

\* Shutdown was triggered and no task on the loop ignores cancellation.
C13_Triggered ==
    /\ ShutdownTasks # {}
    /\ \A x \in WorkTasks : atasks[x].reaction # "ignore"

\* C13: with N tasks on the loop, a triggered shutdown asks all N to cancel
\* (and never itself), and runner.close() is reached, exactly once, also
\* when a cancelled task ends with an exception of its own.
C13_ShutdownCancelsAllClosesOnce ==
    /\ []C13_Safety
    /\ C13_Triggered ~> (runner.closes = 1)

\* Both tasks were on the loop, one ended with its own exception, the other
\* as cancelled, and the shutdown task closed the runner.
C13_Witness ==
    /\ WorkTasks = WorkIds
    /\ \E x \in WorkIds : atasks[x].status = "failed"
    /\ \E x \in WorkIds : atasks[x].status = "cancelled"
    /\ \E s \in ShutdownTasks : atasks[s].closed
    /\ runner.closes = 1

\* C14: however many times shutdown is triggered and however the shutdown
\* tasks interleave, runner.close() is called at most once, and every
\* continuation on the loop has been asked to cancel once a shutdown task
\* has run.
C14_ShutdownIdempotent ==
    /\ runner.closes <= 1
    /\ StartedShutdowns # {}
           => \A x \in WorkTasks : atasks[x].cancelled_by # {}

\* C15: under fair scheduling a triggered shutdown reaches runner.close(),
\* also when a cancelled task ignores the cancellation.
C15_ShutdownReachesClose == (ShutdownTasks # {}) ~> (runner.closes >= 1)

\* A shutdown task has left its wait: it is queued again, or done.
PastGather(s) == atasks[s].started /\ atasks[s].status # "waiting"

\* C16: a shutdown task has asked every task it enumerated to cancel by the
\* time it waits; it leaves the wait only when every one of them is done
\* (cancelled, failed or returned), so runner.close() comes after that; and
\* it never ends with an error: unless it was cancelled itself it goes on to
\* runner.close() whatever the tasks ended with.
C16_ShutdownOrdering ==
    \A s \in StartedShutdowns :
        /\ \A x \in atasks[s].children : s \in atasks[x].cancelled_by
        /\ (PastGather(s) \/ atasks[s].closed)
               => \A x \in atasks[s].children : atasks[x].status \in Finished
        /\ atasks[s].status # "failed"
        /\ atasks[s].status = "returned" => atasks[s].closed
        /\ atasks[s].status = "cancelled" => atasks[s].must_cancel

\* A shutdown task closed the runner after one of its tasks had failed and
\* another had ended as cancelled.
C16_Witness ==
    \E s \in StartedShutdowns :
        /\ atasks[s].closed
        /\ \E x \in atasks[s].children : atasks[x].status = "failed"
        /\ \E x \in atasks[s].children : atasks[x].status = "cancelled"

\* The steps inside the try block of start_daemon_worker.
TrySteps == {"get_manager", "create_daemon_runner", "set_runner"}

\* The loop has not been touched.
LoopUntouched ==
    /\ ~worker.entered
    /\ loop.ready = <<>>
    /\ loop.ntodo = 0
    /\ loop.handled = 0
    /\ ShutdownTasks = {}

\* C17: when get_manager, create_daemon_runner or set_runner raises,
\* start_daemon_worker has logged, raises that same error, has installed no
\* signal handler and never enters the loop.
C17_StartupFailureRaises ==
    worker.failed_at \in TrySteps
        => /\ worker.pc = "raised"
           /\ worker.logged
           /\ worker.raised = worker.failed_with
           /\ worker.raised # NoError
           /\ worker.handlers = {}
           /\ LoopUntouched

\* Creating the daemon runner failed with a configuration error.
C17_Witness ==
    /\ worker.failed_at = "create_daemon_runner"
    /\ worker.failed_with = "ConfigurationError"
    /\ worker.pc = "raised"

\* The entries of the task registry that hold the task receiver.
Receivers == SelectSeq(task_subscribers, LAMBDA e : e.cb = TaskReceiver)

\* C18: once the loop has been entered, the task receiver is registered as
\* exactly one task subscriber and the handlers of SIGTERM and SIGINT are
\* installed, so a signal is never left to its default disposition; and
\* every signal the loop has handled has created a shutdown task.
C18_StartupOrdering ==
    /\ worker.entered
           => /\ Len(Receivers) = 1
              /\ Len(task_subscribers) = 1
              /\ worker.handlers = Range(Signals)
              /\ worker.pc # "killed"
    /\ Cardinality(ShutdownTasks) = loop.handled
    /\ loop.handled > 0 => worker.entered

\* A signal arrived after the loop had been entered, and its handler has
\* created the shutdown task.
C18_Witness ==
    /\ worker.entered
    /\ loop.handled = 1
    /\ loop.arrived = 1
    /\ Len(Receivers) = 1
    /\ ShutdownTasks # {}

----------------------------------------------------------------------------
(* The direct scheduler plugin: submit_job and get_jobs.  Both are          *)
(* functions of what the transport returns for the command: the exit        *)
(* status, stdout and stderr.                                               *)

\* Length of the stdout of the submit command.
MaxStdout == 3

nonSchedVars == <<coordVars, last, thr, live, envelope, daemonVars, rendered>>

\* All texts over `chars` of at most n characters.
Texts(chars, n) == UNION {[1 .. k -> chars] : k \in 0 .. n}

RECURSIVE LStrip(_)
\* re.sub(r'^\s+', '', text), and the left half of str.strip()
LStrip(text) ==
    IF text = <<>> \/ text[1] \notin Whitespace
    THEN text
    ELSE LStrip(Tail(text))

RECURSIVE RStrip(_)
RStrip(text) ==
    IF text = <<>> \/ text[Len(text)] \notin Whitespace
    THEN text
    ELSE RStrip(SubSeq(text, 1, Len(text) - 1))

\* str.strip()
Strip(text) == RStrip(LStrip(text))

SchedulerError == "SchedulerError"

\* A call, its outcome ("ok" or the exception raised) and, when it returned,
\* the type and the value of what it returned.
SchedulerCall(op, input, outcome, type, result) ==
    [op |-> op, input |-> input, outcome |-> outcome, type |-> type,
     result |-> result]

\* What exec_command_wait returns for the submit command.
SubmitRetvals == {0, 1, 255}
SubmitStdouts == Texts({" ", "\n", "4", "2"}, MaxStdout)
SubmitStderrs == {<<>>, <<" ">>, <<"w">>}

CommandResult(retval, stdout, stderr) ==
    [retval |-> retval, stdout |-> stdout, stderr |-> stderr]

\* A submit_job that takes text on stderr as a failure.
SubmitJobStrictStderr(retval, stdout, stderr) ==
    /\ sched = NoSchedulerCall
    /\ sched' = SchedulerCall("submit_job", CommandResult(retval, stdout, stderr),
                              IF retval # 0 \/ Strip(stderr) # <<>> \/ Strip(stdout) = <<>>
                              THEN SchedulerError ELSE "ok",
                              IF retval # 0 \/ Strip(stderr) # <<>> \/ Strip(stdout) = <<>>
                              THEN "none" ELSE "str",
                              IF retval # 0 \/ Strip(stderr) # <<>> \/ Strip(stdout) = <<>>
                              THEN <<>> ELSE Strip(stdout))
    /\ transport' = TransportExec(transport)
    /\ UNCHANGED nonSchedVars

\* submit_job, lines 109-124: a non-zero exit status raises; text on stderr
\* is only logged; an stdout that strips to nothing raises; otherwise the
\* stripped stdout is returned.  The command is run on self.transport as it
\* is (line 109).  The plugin keeps nothing between calls: a call is taken in
\* the state after construction and `sched` records it.
SubmitJob(retval, stdout, stderr) ==
    /\ sched = NoSchedulerCall
    /\ sched' = SchedulerCall("submit_job", CommandResult(retval, stdout, stderr),
                              IF retval # 0 THEN SchedulerError
                              ELSE IF Strip(stdout) = <<>> THEN SchedulerError
                              ELSE "ok",
                              IF retval # 0 \/ Strip(stdout) = <<>> THEN "none" ELSE "str",
                              IF retval # 0 THEN <<>>
                              ELSE IF Strip(stdout) = <<>> THEN <<>>
                              ELSE Strip(stdout))
    /\ transport' = TransportExec(transport)
    /\ UNCHANGED nonSchedVars

\* C19 (helper): `result` is `text` without its leading and trailing
\* whitespace.
IsStripped(result, text) ==
    \E i, j \in DOMAIN text :
        /\ i <= j
        /\ result = SubSeq(text, i, j)
        /\ text[i] \notin Whitespace
        /\ text[j] \notin Whitespace
        /\ \A k \in DOMAIN text : (k < i \/ k > j) => text[k] \in Whitespace

\* C19: the outcome of submit_job follows from the exit status, stdout and
\* stderr of the submit command: a non-zero exit status raises
\* SchedulerError; a zero exit status with an empty or all-whitespace stdout
\* raises SchedulerError; a zero exit status with any other stdout returns
\* the stripped stdout, whatever stderr holds.
C19_SubmitJobOutcome ==
    sched.op = "submit_job"
        => LET in == sched.input
               blank == \A k \in DOMAIN in.stdout : in.stdout[k] \in Whitespace
           IN  /\ in.retval # 0 => sched.outcome = SchedulerError
               /\ (in.retval = 0 /\ blank) => sched.outcome = SchedulerError
               /\ (in.retval = 0 /\ ~blank)
                      => /\ sched.outcome = "ok"
                         /\ IsStripped(sched.result, in.stdout)

\* The command succeeded with text on stderr and a job id with whitespace
\* around it on stdout, and the job id was returned.
C19_Witness ==
    /\ sched.op = "submit_job"
    /\ sched.input.retval = 0
    /\ sched.input.stderr = <<"w">>
    /\ sched.input.stdout = <<" ", "4", "\n">>
    /\ sched.outcome = "ok"
    /\ sched.result = <<"4">>

----------------------------------------------------------------------------
(* get_jobs: the listing command's output is parsed line by line into       *)
(* JobInfo records.                                                         *)

RECURSIVE SplitOn(_, _)
\* str.split(sep) and re.split('[...]', text): split at every single
\* separator character.
SplitOn(text, seps) ==
    LET at == {k \in DOMAIN text : text[k] \in seps}
    IN  IF at = {}
        THEN <<text>>
        ELSE LET i == CHOOSE i \in at : \A k \in at : i <= k
             IN  <<SubSeq(text, 1, i - 1)>>
                     \o SplitOn(SubSeq(text, i + 1, Len(text)), seps)

RECURSIVE SplitWhitespace(_)
\* re.split(r'\s+', line): split at every maximal run of whitespace.
SplitWhitespace(line) ==
    LET at == {k \in DOMAIN line : line[k] \in Whitespace}
    IN  IF at = {}
        THEN <<line>>
        ELSE LET i == CHOOSE i \in at : \A k \in at : i <= k
             IN  <<SubSeq(line, 1, i - 1)>>
                     \o SplitWhitespace(LStrip(SubSeq(line, i, Len(line))))

RECURSIVE JoinWith(_, _)
\* sep.join(parts)
JoinWith(parts, sep) ==
    IF parts = <<>> THEN <<>>
    ELSE IF Len(parts) = 1 THEN parts[1]
    ELSE parts[1] \o sep \o JoinWith(Tail(parts), sep)

\* re.search(r'^\s*PID', line)
IsHeader(line) ==
    LET rest == LStrip(line)
    IN  Len(rest) >= 3 /\ SubSeq(rest, 1, 3) = <<"P", "I", "D">>

Digits == {"0", "1", "2", "3", "4", "5", "6", "7", "8", "9"}

DigitValue(c) ==
    CASE c = "0" -> 0 [] c = "1" -> 1 [] c = "2" -> 2 [] c = "3" -> 3
      [] c = "4" -> 4 [] c = "5" -> 5 [] c = "6" -> 6 [] c = "7" -> 7
      [] c = "8" -> 8 [] c = "9" -> 9

RECURSIVE IntOf(_)
\* The value of a text of digits.
IntOf(text) ==
    IF text = <<>> THEN 0
    ELSE 10 * IntOf(SubSeq(text, 1, Len(text) - 1)) + DigitValue(text[Len(text)])

\* A text without its sign.
Unsigned(text) ==
    IF text # <<>> /\ text[1] \in {"+", "-"} THEN Tail(text) ELSE text

\* int(text) succeeds: an optional sign and at least one digit.
IsInt(text) ==
    /\ Unsigned(text) # <<>>
    /\ \A k \in DOMAIN Unsigned(text) : Unsigned(text)[k] \in Digits

\* int(text) of a text for which it succeeds.
IntValue(text) ==
    IF text[1] = "-" THEN 0 - IntOf(Tail(text)) ELSE IntOf(Unsigned(text))

\* int(text) succeeds with a value that is not negative.
IsNat(text) ==
    /\ IsInt(text)
    /\ IntValue(text) >= 0

\* Body at `value`, a local variable assigned once and read many times.
With(value, Body(_)) == CHOOSE r \in {Body(v) : v \in {value}} : TRUE

\* An attribute of a JobInfo is unset or holds one value.
Unset == {}
Holding(value) == {value}

\* A status table that takes a stopped process as running.
MapStatusPsNoSuspended(c) ==
    IF c \in {"D", "I", "R", "S", "U", "W", "T"} THEN "RUNNING"
    ELSE IF c \in {"X", "Z"} THEN "DONE"
    ELSE "UNDETERMINED"

\* _MAP_STATUS_PS, and UNDETERMINED for a character that is not a key.
MapStatusPs(c) ==
    IF c \in {"D", "I", "R", "S", "U", "W"} THEN "RUNNING"
    ELSE IF c = "T" THEN "SUSPENDED"
    ELSE IF c \in {"X", "Z"} THEN "DONE"
    ELSE IF c = "?" THEN "UNDETERMINED"
    ELSE "UNDETERMINED"

\* A parse of the TIME column that drops the days.
WallclockWithoutDays(string) ==
    With(SplitOn(string, {":", "."}), LAMBDA pieces :
        IF Len(pieces) # 3 THEN Unset
        ELSE With(SplitOn(pieces[1], {"-"}), LAMBDA pieces_first :
            LET hasdays == Len(pieces_first) = 2
                hours == IF hasdays THEN pieces_first[2] ELSE pieces[1]
            IN  IF hasdays /\ ~IsInt(pieces_first[1]) THEN Unset
                ELSE IF ~IsNat(hours) \/ ~IsNat(pieces[2]) \/ ~IsNat(pieces[3]) THEN Unset
                ELSE Holding(IntValue(hours) * 3600
                             + IntValue(pieces[2]) * 60
                             + IntValue(pieces[3]))))

\* A parse of the TIME column that takes every number int() reads.
WallclockUnchecked(string) ==
    With(SplitOn(string, {":", "."}), LAMBDA pieces :
        IF Len(pieces) # 3 THEN Unset
        ELSE With(SplitOn(pieces[1], {"-"}), LAMBDA pieces_first :
            LET hasdays == Len(pieces_first) = 2
                hours == IF hasdays THEN pieces_first[2] ELSE pieces[1]
            IN  IF hasdays /\ ~IsInt(pieces_first[1]) THEN Unset
                ELSE IF ~IsInt(hours) \/ ~IsInt(pieces[2]) \/ ~IsInt(pieces[3]) THEN Unset
                ELSE Holding((IF hasdays THEN IntValue(pieces_first[1]) ELSE 0) * 86400
                             + IntValue(hours) * 3600
                             + IntValue(pieces[2]) * 60
                             + IntValue(pieces[3]))))

\* Lines 204-247: the TIME column [days-]hours:minutes:seconds in seconds;
\* a ValueError leaves wallclock_time_seconds unset.
WallclockOf(string) ==
    With(SplitOn(string, {":", "."}), LAMBDA pieces :
        IF Len(pieces) # 3 THEN Unset
        ELSE With(SplitOn(pieces[1], {"-"}), LAMBDA pieces_first :
            LET hasdays == Len(pieces_first) = 2
                hours == IF hasdays THEN pieces_first[2] ELSE pieces[1]
            IN  IF hasdays /\ ~IsInt(pieces_first[1]) THEN Unset
                ELSE IF ~IsNat(hours) \/ ~IsNat(pieces[2]) \/ ~IsNat(pieces[3]) THEN Unset
                ELSE Holding((IF hasdays THEN IntValue(pieces_first[1]) ELSE 0) * 86400
                             + IntValue(hours) * 3600
                             + IntValue(pieces[2]) * 60
                             + IntValue(pieces[3]))))

JobInfo(job_id, job_state, job_owner, wallclock_time_seconds) ==
    [job_id |-> job_id, job_state |-> job_state, job_owner |-> job_owner,
     wallclock_time_seconds |-> wallclock_time_seconds]

\* A loop body that lets the ValueError of a time string escape.
ParseLineStrictTime(line) ==
    With(SplitWhitespace(LStrip(line)), LAMBDA job :
        IF Len(job) < 3
        THEN [outcome |-> SchedulerError, info |-> <<>>]
        ELSE IF Len(job) < 4
        THEN [outcome |-> "IndexError", info |-> <<>>]
        ELSE IF WallclockOf(job[4]) = Unset
        THEN [outcome |-> "ValueError", info |-> <<>>]
        ELSE [outcome |-> "ok",
              info |-> JobInfo(job[1], MapStatusPs(job[2][1]), Holding(job[3]),
                               WallclockOf(job[4]))])

\* The body of the loop over the lines, lines 178-250: fewer than three
\* fields raise SchedulerError, exactly three raise the IndexError of job[3]
\* (only KeyError and ValueError are caught around it).
ParseLine(line) ==
    With(SplitWhitespace(LStrip(line)), LAMBDA job :
        IF Len(job) < 3
        THEN [outcome |-> SchedulerError, info |-> <<>>]
        ELSE IF Len(job) < 4
        THEN [outcome |-> "IndexError", info |-> <<>>]
        ELSE [outcome |-> "ok",
              info |-> JobInfo(job[1], MapStatusPs(job[2][1]), Holding(job[3]),
                               WallclockOf(job[4]))])

RECURSIVE ParseLines(_)
\* The loop of lines 174-250 over stdout.split('\n').
ParseLines(lines) ==
    IF lines = <<>> THEN [outcome |-> "ok", job_list |-> <<>>]
    ELSE IF IsHeader(Head(lines)) \/ Head(lines) = <<>> THEN ParseLines(Tail(lines))
    ELSE With(ParseLine(Head(lines)), LAMBDA this_job :
             IF this_job.outcome # "ok"
             THEN [outcome |-> this_job.outcome, job_list |-> <<>>]
             ELSE With(ParseLines(Tail(lines)), LAMBDA rest :
                      IF rest.outcome # "ok" THEN rest
                      ELSE [outcome |-> "ok",
                            job_list |-> <<this_job.info>> \o rest.job_list]))

\* The `jobs` argument: None, a list of job ids, or one string (held in
\* `value` as the only element).
NoJobs == [kind |-> "none", value |-> <<>>]
JobList(ids) == [kind |-> "list", value |-> ids]
JobStr(id) == [kind |-> "str", value |-> <<id>>]

\* `if jobs`: None, an empty list and an empty string are false.
Truthy(jobs) ==
    /\ jobs.kind # "none"
    /\ IF jobs.kind = "str" THEN jobs.value[1] # <<>> ELSE jobs.value # <<>>

\* set(jobs): the items of a list, the characters of a string.
SetOfJobs(jobs) ==
    IF jobs.kind = "str"
    THEN {<<jobs.value[1][k]>> : k \in DOMAIN jobs.value[1]}
    ELSE Range(jobs.value)

\* The job ids a caller asks for.
RequestIds == {<<"1">>, <<"1", "2">>}

JobFilters ==
    {NoJobs}
        \cup {JobList(ids) : ids \in UNION {[1 .. n -> RequestIds] : n \in 0 .. MaxRequested}}
        \cup {JobStr(id) : id \in {<<"1">>, <<"1", "2">>}}

\* One line of `ps -xo pid,stat,user,time`.
PsLine(pid, stat, time) == JoinWith(<<pid, stat, <<"u">>, time>>, <<" ">>)

ListingLines ==
    {PsLine(<<"1">>, <<"S">>, <<"0", ":", "0", "0", ":", "0", "1">>),
     <<" ", " ">> \o PsLine(<<"1">>, <<"R", "s">>, <<"0", ":", "0", "1", ".", "0", "2">>),
     PsLine(<<"2">>, <<"T">>, <<"1", "-", "0", "2", ":", "0", "3", ":", "0", "4">>),
     PsLine(<<"2">>, <<"Q">>, <<"0", ":", "0", "1">>),
     PsLine(<<"1", "2">>, <<"Z">>, <<"0", ":", "0", "0", ":", "0", "0">>),
     PsLine(<<"3">>, <<"D">>, <<"0", "2", ":", "0", "3", ":", "0", "4">>),
     PsLine(<<"3">>, <<"I">>, <<"a", "b", ":", "0", "3", ":", "0", "4">>),
     PsLine(<<"3">>, <<"U">>, <<"x", "-", "0", "2", ":", "0", "3", ":", "0", "4">>),
     PsLine(<<"3">>, <<"W", "+">>, <<"0", ":", "-", "1", ":", "0", "0">>),
     PsLine(<<"3">>, <<"X">>, <<"+", "1", ":", "-", "0", ":", "0", "5">>),
     PsLine(<<"3">>, <<"?">>, <<"1", "-", "2", "-", "3", ":", "0", "4", ":", "0", "5">>),
     <<" ", "P", "I", "D", " ", "S", "T", "A", "T">>,
     <<"7", " ", "R">>,
     <<"2", " ", "S", " ", "u">>}

\* The first column of a line that is not skipped.
PidOf(line) == SplitWhitespace(LStrip(line))[1]

Records(lines) == {k \in DOMAIN lines : ~IsHeader(lines[k]) /\ lines[k] # <<>>}

\* ps prints a process once: at most MaxLines lines with distinct pids, each
\* ended by a newline.
ListingOutputs ==
    {JoinWith(lines \o <<<<>>>>, <<"\n">>) :
        lines \in {l \in UNION {[1 .. n -> ListingLines] : n \in 0 .. MaxLines} :
                      \A i, j \in Records(l) : PidOf(l[i]) = PidOf(l[j]) => i = j}}

ListingRetvals == {0, 1}
ListingStderrs == {<<>>, <<"w", "\n">>}

GetJobsInput(jobs, user, as_dict, retval, stdout, stderr) ==
    [jobs |-> jobs, user |-> user, as_dict |-> as_dict,
     retval |-> retval, stdout |-> stdout, stderr |-> stderr]

\* Line 256: set(jobs) - set(found_jobs) if jobs else [].
NotFoundJobs(jobs, job_list) ==
    IF ~Truthy(jobs) THEN {}
    ELSE SetOfJobs(jobs) \ {job_list[k].job_id : k \in DOMAIN job_list}

\* get_jobs, lines 161-265.  Only the command is run inside
\* `with self.transport:` (lines 161-162), the output is parsed after it.  `user` and `as_dict` are not read: what line
\* 265 returns is the list job_list.  The order of list(set(...)) is the set's
\* iteration order, any order.
GetJobs(jobs, user, as_dict, retval, stdout, stderr) ==
    LET input == GetJobsInput(jobs, user, as_dict, retval, stdout, stderr)
        filtered_stderr == JoinWith(SplitOn(stderr, {"\n"}), <<"\n">>)
    IN  /\ sched = NoSchedulerCall
        /\ IF Strip(filtered_stderr) # <<>> /\ retval # 0
           THEN sched' = SchedulerCall("get_jobs", input, SchedulerError, "none", <<>>)
           ELSE \E parsed \in {ParseLines(SplitOn(stdout, {"\n"}))} :
                    IF parsed.outcome # "ok"
                    THEN sched' = SchedulerCall("get_jobs", input, parsed.outcome, "none", <<>>)
                    ELSE \E not_found_jobs \in Orders(NotFoundJobs(jobs, parsed.job_list)) :
                             sched' = SchedulerCall("get_jobs", input, "ok", "list",
                                          parsed.job_list
                                              \o [k \in DOMAIN not_found_jobs |->
                                                     JobInfo(not_found_jobs[k], "DONE",
                                                             Unset, Unset)])
        /\ transport' = TransportExit(TransportExec(TransportEnter(transport)))
        /\ UNCHANGED nonSchedVars

\* The job to kill, and the processes psutil finds below it.
KillIds == {<<"4">>, <<"4", "2">>}
KillChildren == {<<>>, << <<"5">> >>}

KillRetvals == {0, 1}
KillStdouts == {<<>>, <<"o", "\n">>}
KillStderrs == {<<>>, <<"w", "\n">>}

KillJobInput(backend, jobid, process_exists, children, retval, stdout, stderr) ==
    [backend |-> backend, jobid |-> jobid, process_exists |-> process_exists,
     children |-> children, retval |-> retval, stdout |-> stdout, stderr |-> stderr]

\* Lines 289-308 of kill_job and the _parse_kill_output of the PBS plugins:
\* false for a non-zero exit status, true otherwise; text on stdout or stderr
\* is only logged.
ParseKillOutput(retval, stdout, stderr) == retval = 0

\* A kill_job that raises when the kill command is refused.
KillJobRaisesOnRefusal(jobid, process_exists, children, retval, stdout, stderr) ==
    LET input == KillJobInput("direct", jobid, process_exists, children,
                              retval, stdout, stderr)
    IN  /\ sched = NoSchedulerCall
        /\ IF ~process_exists \/ retval # 0
           THEN /\ sched' = SchedulerCall("kill_job", input, SchedulerError, "none", <<>>)
                /\ transport' = transport
           ELSE /\ sched' = SchedulerCall("kill_job", input, "ok", "bool", TRUE)
                /\ transport' = TransportExec(transport)
        /\ UNCHANGED nonSchedVars

\* kill_job of the direct plugin, lines 267-308.  psutil.Process(int(jobid))
\* (line 279) raises ValueError for a job id that is no number and
\* NoSuchProcess when no process with this pid exists; otherwise the job and
\* its descendants `children` are killed with one command, run on
\* self.transport as it is (line 289).
KillJob(jobid, process_exists, children, retval, stdout, stderr) ==
    LET input == KillJobInput("direct", jobid, process_exists, children,
                              retval, stdout, stderr)
    IN  /\ sched = NoSchedulerCall
        /\ IF ~IsInt(jobid)
           THEN /\ sched' = SchedulerCall("kill_job", input, "ValueError", "none", <<>>)
                /\ transport' = transport
           ELSE IF ~process_exists
           THEN /\ sched' = SchedulerCall("kill_job", input, "NoSuchProcess", "none", <<>>)
                /\ transport' = transport
           ELSE /\ sched' = SchedulerCall("kill_job", input, "ok", "bool",
                                          ParseKillOutput(retval, stdout, stderr))
                /\ transport' = TransportExec(transport)
        /\ UNCHANGED nonSchedVars

\* kill_job of the PBSPro and Torque plugins (pbspro.py lines 93-105,
\* torque.py lines 86-98): the kill command is run and its output parsed.
PbsKillJob(backend, jobid, retval, stdout, stderr) ==
    /\ sched = NoSchedulerCall
    /\ sched' = SchedulerCall("kill_job",
                              KillJobInput(backend, jobid, TRUE, <<>>, retval, stdout, stderr),
                              "ok", "bool", ParseKillOutput(retval, stdout, stderr))
    /\ transport' = TransportExec(transport)
    /\ UNCHANGED nonSchedVars

----------------------------------------------------------------------------
(* The submit script header.  A rendered text is a sequence of pieces, the  *)
(* literal parts of the format strings and the values put between them.     *)

nonRenderedVars == <<coordVars, last, thr, live, envelope, daemonVars, schedVars>>

DigitCharacter(d) ==
    CASE d = 0 -> "0" [] d = 1 -> "1" [] d = 2 -> "2" [] d = 3 -> "3"
      [] d = 4 -> "4" [] d = 5 -> "5" [] d = 6 -> "6" [] d = 7 -> "7"
      [] d = 8 -> "8" [] d = 9 -> "9"

RECURSIVE Str(_)
\* f'{n}' of a number that is not negative.
Str(n) ==
    IF n < 10 THEN <<DigitCharacter(n)>>
    ELSE Str(n \div 10) \o <<DigitCharacter(n % 10)>>

\* f'{n:02d}'
Format02d(n) == IF n < 10 THEN <<"0">> \o Str(n) ELSE Str(n)

\* The fields of a JobTemplate the direct plugin reads.  An unset text is
\* <<>> and an unset number is 0: the header tests them for truth only.
NoJobResource == [set |-> FALSE, num_cores_per_mpiproc |-> 0]
JobResource(num_cores_per_mpiproc) ==
    [set |-> TRUE, num_cores_per_mpiproc |-> num_cores_per_mpiproc]

JobTemplates ==
    [sched_output_path : {<<>>, <<"_scheduler-stdout.txt">>},
     sched_join_files : BOOLEAN,
     sched_error_path : {<<>>, <<"_scheduler-stderr.txt">>},
     max_memory_kb : {0, 2048},
     import_sys_environment : BOOLEAN,
     custom_scheduler_commands : {<<>>, <<"ulimit -s unlimited">>},
     job_resource : {NoJobResource, JobResource(0), JobResource(2)},
     rerunnable : BOOLEAN]

\* The lines _get_submit_script_header collects, lines 318-357.
HeaderLines(job_tmpl) ==
    (IF job_tmpl.sched_output_path # <<>>
     THEN << <<"exec > ">> \o job_tmpl.sched_output_path >> ELSE <<>>)
    \o (IF job_tmpl.sched_join_files THEN <<>>
        ELSE IF job_tmpl.sched_error_path # <<>>
        THEN << <<"exec 2> ">> \o job_tmpl.sched_error_path >>
        ELSE << <<"exec 2>&1">> >>)
    \o (IF ~job_tmpl.import_sys_environment
        THEN << <<"env --ignore-environment \\">> >> ELSE <<>>)
    \o (IF job_tmpl.custom_scheduler_commands # <<>>
        THEN <<job_tmpl.custom_scheduler_commands>> ELSE <<>>)
    \o (IF job_tmpl.job_resource.set /\ job_tmpl.job_resource.num_cores_per_mpiproc # 0
        THEN << <<"export OMP_NUM_THREADS=">>
                    \o Str(job_tmpl.job_resource.num_cores_per_mpiproc) >>
        ELSE <<>>)
    \o << <<>> >>

\* What _get_submit_script_header logs, lines 332-354.
HeaderLog(job_tmpl) ==
    (IF job_tmpl.sched_join_files /\ job_tmpl.sched_error_path # <<>>
     THEN <<"info: sched_join_files is True, but sched_error_path is set; ignoring sched_error_path">> ELSE <<>>)
    \o (IF job_tmpl.max_memory_kb # 0
        THEN <<"warning: Physical memory limiting is not supported by the direct scheduler.">> ELSE <<>>)
    \o (IF job_tmpl.rerunnable
        THEN <<"warning: The 'rerunnable' option is set to 'True', but has no effect when using the direct scheduler.">> ELSE <<>>)

\* A header that also depends on what the scheduler was last asked to do.
GetSubmitScriptHeaderStateful(job_tmpl) ==
    JoinWith(HeaderLines(job_tmpl)
                 \o (IF sched.op = "none" THEN <<>> ELSE << <<"# after ">> \o <<sched.op>> >>),
             <<"\n">>)

\* A header that turns the memory limit into a directive.
GetSubmitScriptHeaderMemoryLimited(job_tmpl) ==
    JoinWith((IF job_tmpl.max_memory_kb # 0
              THEN << <<"ulimit -v ">> \o Str(job_tmpl.max_memory_kb) >> ELSE <<>>)
                 \o HeaderLines(job_tmpl),
             <<"\n">>)

\* _get_submit_script_header, line 374: '\n'.join(lines)
GetSubmitScriptHeader(job_tmpl) == JoinWith(HeaderLines(job_tmpl), <<"\n">>)

\* The caller renders the header of job_tmpl: for the first time, or again
\* for the template it rendered before.
RenderHeader(job_tmpl) ==
    /\ Len(rendered.headers) < MaxRenders
    /\ rendered.headers = <<>> \/ (rendered.backend = "direct" /\ job_tmpl = rendered.job_tmpl)
    /\ rendered' = [backend |-> "direct",
                    given |-> IF rendered.headers = <<>> THEN job_tmpl ELSE rendered.given,
                    job_tmpl |-> job_tmpl,
                    headers |-> Append(rendered.headers, GetSubmitScriptHeader(job_tmpl)),
                    after |-> Append(rendered.after, sched.op),
                    log |-> rendered.log \o HeaderLog(job_tmpl)]
    /\ UNCHANGED nonRenderedVars

\* A Python value passed as a limit: None, an int or a str.
PyNone == [type |-> "NoneType", int |-> 0, str |-> <<>>]
PyInt(n) == [type |-> "int", int |-> n, str |-> <<>>]
PyStr(text) == [type |-> "str", int |-> 0, str |-> text]

\* `if value:`
Truth(value) ==
    CASE value.type = "NoneType" -> FALSE
      [] value.type = "int" -> value.int # 0
      [] value.type = "str" -> value.str # <<>>

\* int(value) does not raise ValueError.
Converts(value) == value.type = "int" \/ (value.type = "str" /\ IsInt(value.str))

\* int(value), for a value that converts
IntConverted(value) == IF value.type = "int" THEN value.int ELSE IntValue(value.str)

\* `tot_secs = int(value); if tot_secs <= 0: raise ValueError`, inside
\* `try: ... except ValueError: raise ValueError(...)`
RaisesValueError(value) == ~Converts(value) \/ IntConverted(value) <= 0

WallclockLimits ==
    {PyNone, PyInt(0), PyInt(0 - 5), PyInt(1), PyInt(59), PyInt(60), PyInt(3599),
     PyInt(3600), PyInt(86399), PyInt(360061), PyStr(<<"9", "0">>), PyStr(<<"1", "h">>)}

MemoryLimits ==
    {PyNone, PyInt(0), PyInt(0 - 1), PyInt(2048), PyStr(<<"0">>), PyStr(<<"2", "G">>)}

\* The arguments of _get_resource_lines.  An unset number of processes or
\* cores is 0: the code tests them for truth only.
ResourceRequests ==
    [num_machines : {2},
     num_mpiprocs_per_machine : {0, 4},
     num_cores_per_machine : {0, 2},
     max_memory_kb : MemoryLimits,
     max_wallclock_seconds : WallclockLimits]

\* pbspro.py lines 134-138 and torque.py lines 127-133:
\* f'{hours:02d}:{minutes:02d}:{seconds:02d}'
Walltime(tot_secs) ==
    Format02d(tot_secs \div 3600) \o <<":">>
        \o Format02d((tot_secs % 3600) \div 60) \o <<":">>
        \o Format02d((tot_secs % 3600) % 60)

ResourceLines(outcome, lines) == [outcome |-> outcome, lines |-> lines]

\* _get_resource_lines of the Torque plugin, torque.py lines 100-147.
TorqueResourceLines(request) ==
    IF request.max_wallclock_seconds # PyNone /\ RaisesValueError(request.max_wallclock_seconds)
    THEN ResourceLines("ValueError", <<>>)
    ELSE IF Truth(request.max_memory_kb) /\ RaisesValueError(request.max_memory_kb)
    THEN ResourceLines("ValueError", <<>>)
    ELSE ResourceLines("ok",
             << <<"#PBS -l ">>
                    \o <<"nodes=">> \o Str(request.num_machines)
                    \o (IF request.num_cores_per_machine # 0
                        THEN <<":ppn=">> \o Str(request.num_cores_per_machine)
                        ELSE IF request.num_mpiprocs_per_machine # 0
                        THEN <<":ppn=">> \o Str(request.num_mpiprocs_per_machine)
                        ELSE <<>>)
                    \o (IF request.max_wallclock_seconds # PyNone
                        THEN <<",", "walltime=">>
                                 \o Walltime(IntConverted(request.max_wallclock_seconds))
                        ELSE <<>>)
                    \o (IF Truth(request.max_memory_kb)
                        THEN <<",mem=">> \o Str(IntConverted(request.max_memory_kb)) \o <<"kb">>
                        ELSE <<>>) >>)

\* _get_resource_lines of the PBSPro plugin, pbspro.py lines 107-151.
PbsproResourceLines(request) ==
    IF request.max_wallclock_seconds # PyNone /\ RaisesValueError(request.max_wallclock_seconds)
    THEN ResourceLines("ValueError", <<>>)
    ELSE IF Truth(request.max_memory_kb) /\ RaisesValueError(request.max_memory_kb)
    THEN ResourceLines("ValueError", <<>>)
    ELSE ResourceLines("ok",
             (IF request.max_wallclock_seconds # PyNone
              THEN << <<"#PBS -l ", "walltime=">>
                          \o Walltime(IntConverted(request.max_wallclock_seconds)) >>
              ELSE <<>>)
             \o << <<"#PBS -l ">>
                       \o <<"select=">> \o Str(request.num_machines)
                       \o (IF request.num_mpiprocs_per_machine # 0
                           THEN <<":mpiprocs=">> \o Str(request.num_mpiprocs_per_machine)
                           ELSE <<>>)
                       \o (IF request.num_cores_per_machine # 0
                           THEN <<":ncpus=">> \o Str(request.num_cores_per_machine)
                           ELSE <<>>)
                       \o (IF Truth(request.max_memory_kb)
                           THEN <<":mem=">> \o Str(IntConverted(request.max_memory_kb))
                                    \o <<"kb">>
                           ELSE <<>>) >>)

\* The resource lines of a request are rendered by a backend: for the first
\* time, or again for the request rendered before.
RenderResourceLines(backend, request) ==
    /\ Len(rendered.headers) < MaxRenders
    /\ rendered.headers = <<>> \/ (rendered.backend = backend /\ request = rendered.job_tmpl)
    /\ rendered' = [backend |-> backend,
                    given |-> IF rendered.headers = <<>> THEN request ELSE rendered.given,
                    job_tmpl |-> request,
                    headers |-> Append(rendered.headers,
                                       IF backend = "torque" THEN TorqueResourceLines(request)
                                       ELSE PbsproResourceLines(request)),
                    after |-> Append(rendered.after, sched.op),
                    log |-> rendered.log]
    /\ UNCHANGED nonRenderedVars

\* One call of the scheduler plugin on a fresh instance, with every input.
NextScheduler ==
    /\ sched = NoSchedulerCall
    /\ \/ \E retval \in SubmitRetvals, stdout \in SubmitStdouts, stderr \in SubmitStderrs :
              SubmitJob(retval, stdout, stderr)
       \/ \E stdout \in ListingOutputs, jobs \in JobFilters, as_dict \in BOOLEAN,
             retval \in ListingRetvals, stderr \in ListingStderrs :
              GetJobs(jobs, "None", as_dict, retval, stdout, stderr)
       \/ \E jobid \in KillIds, process_exists \in BOOLEAN, children \in KillChildren,
             retval \in KillRetvals, stdout \in KillStdouts, stderr \in KillStderrs :
              KillJob(jobid, process_exists, children, retval, stdout, stderr)
       \/ \E backend \in {"pbspro", "torque"}, jobid \in KillIds, retval \in KillRetvals,
             stdout \in KillStdouts, stderr \in KillStderrs :
              PbsKillJob(backend, jobid, retval, stdout, stderr)

SpecScheduler == Init /\ [][NextScheduler]_vars

----------------------------------------------------------------------------
(* Claims about get_jobs.                                                   *)

\* The ids asked for by a filter: the items of a list, the string itself.
Requested(jobs) ==
    Range(jobs.value)

\* The records of the listing output with job id `id`.
Listed(stdout, id) ==
    LET lines == SplitOn(stdout, {"\n"})
    IN  {k \in Records(lines) : PidOf(lines[k]) = id}

\* The entries of a result with job id `id`.
Reported(result, id) == {k \in DOMAIN result : result[k].job_id = id}

\* C20: whenever get_jobs returns for a job-id filter, every requested id
\* that is not in the listing output is in the result exactly once, with
\* job_state DONE, and every requested id that is in the listing output is in
\* the result exactly once, with the state parsed from its record.
C20_MissingJobsDone ==
    (sched.op = "get_jobs" /\ sched.outcome = "ok")
        => \A id \in Requested(sched.input.jobs) :
               LET lines == SplitOn(sched.input.stdout, {"\n"})
                   listed == Listed(sched.input.stdout, id)
                   reported == Reported(sched.result, id)
               IN  /\ Cardinality(reported) = 1
                   /\ \A k \in reported :
                          IF listed = {}
                          THEN sched.result[k].job_state = "DONE"
                          ELSE \A l \in listed :
                                   sched.result[k].job_state
                                       = MapStatusPs(SplitWhitespace(LStrip(lines[l]))[2][1])

\* The records of a listing output, in order: the lines that are neither
\* empty nor a header.
RecordLines(stdout) ==
    SelectSeq(SplitOn(stdout, {"\n"}), LAMBDA line : ~IsHeader(line) /\ line # <<>>)

\* The positions at which a column of a line starts.
ColumnStarts(line) ==
    {k \in DOMAIN line : line[k] \notin Whitespace /\ (k = 1 \/ line[k - 1] \in Whitespace)}

\* The n-th column of a line.
Column(line, n) ==
    With(ColumnStarts(line), LAMBDA starts :
        With(CHOOSE k \in starts : Cardinality({j \in starts : j < k}) = n - 1,
             LAMBDA first :
                 SubSeq(line, first,
                        CHOOSE k \in first .. Len(line) :
                            /\ \A j \in first .. k : line[j] \notin Whitespace
                            /\ k = Len(line) \/ line[k + 1] \in Whitespace)))

\* A listing as `ps -xo pid,stat,user,time` prints it: every record has the
\* four columns.
WellFormed(stdout) ==
    \A line \in Range(RecordLines(stdout)) : Cardinality(ColumnStarts(line)) >= 4

\* The job state the status table gives for a status character.
TableState(c) ==
    CASE c \in {"D", "I", "R", "S", "U", "W"} -> "RUNNING"
      [] c = "T" -> "SUSPENDED"
      [] c \in {"X", "Z"} -> "DONE"
      [] OTHER -> "UNDETERMINED"

\* C21: for a well-formed output of a listing command that succeeded,
\* get_jobs does not raise and its result starts with exactly one JobInfo per
\* record, in the order of the records, each with the record's non-empty job
\* id and with the state the table gives for the first status character
\* (RUNNING for D, I, R, S, U, W; SUSPENDED for T; DONE for X, Z;
\* UNDETERMINED for any other character); whatever follows in the result
\* belongs to no record, and nothing follows when no filter was given.
C21_OneJobInfoPerRecord ==
    (sched.op = "get_jobs" /\ sched.input.retval = 0 /\ WellFormed(sched.input.stdout))
        => \E records \in {RecordLines(sched.input.stdout)} :
               /\ sched.outcome = "ok"
               /\ Len(sched.result) >= Len(records)
               /\ \A k \in DOMAIN records :
                      /\ sched.result[k].job_id # <<>>
                      /\ sched.result[k].job_id = Column(records[k], 1)
                      /\ sched.result[k].job_state = TableState(Column(records[k], 2)[1])
               /\ \A k \in DOMAIN sched.result :
                      k > Len(records)
                          => \A j \in DOMAIN records :
                                 Column(records[j], 1) # sched.result[k].job_id
               /\ sched.input.jobs = NoJobs => Len(sched.result) = Len(records)

\* A listing of two records was parsed without a filter: the first has a
\* status character that is not in the table, the second a stopped process.
C21_Witness ==
    /\ sched.op = "get_jobs"
    /\ sched.outcome = "ok"
    /\ sched.input.retval = 0
    /\ sched.input.jobs = NoJobs
    /\ Len(sched.result) = 2
    /\ sched.result[1].job_id = <<"1", "2">>
    /\ sched.result[1].job_state = "DONE"
    /\ sched.result[2].job_id = <<"2">>
    /\ sched.result[2].job_state = "UNDETERMINED"

\* C22: a listing command that exits with a non-zero status makes get_jobs
\* raise SchedulerError, whatever stdout and stderr hold; no result is
\* returned for a failed listing.
C22_FailedListingRaises ==
    (sched.op = "get_jobs" /\ sched.input.retval # 0)
        => sched.outcome = SchedulerError

\* C25: get_jobs with as_dict true returns a mapping from job id to JobInfo
\* with one entry per job id, and with as_dict false the sequence of the
\* records.
C25_AsDictReturnsMapping ==
    (sched.op = "get_jobs" /\ sched.outcome = "ok")
        => IF sched.input.as_dict
           THEN /\ sched.type = "dict"
                /\ \A i, j \in DOMAIN sched.result :
                       sched.result[i].job_id = sched.result[j].job_id => i = j
           ELSE sched.type = "list"

----------------------------------------------------------------------------
(* Claims about the TIME column.                                            *)

DigitCharacters == <<"0", "1", "2", "3", "4", "5", "6", "7", "8", "9">>

RECURSIVE DecimalFrom(_, _)
\* The number a text of digits denotes, read from the left.
DecimalFrom(text, read) ==
    IF text = <<>> THEN read
    ELSE DecimalFrom(Tail(text),
                     10 * read + (CHOOSE d \in 0 .. 9 : DigitCharacters[d + 1] = Head(text)))

\* A component of a time string that is a number: digits and nothing else.
Numeric(text) == text # <<>> /\ \A k \in DOMAIN text : text[k] \in Range(DigitCharacters)

\* The seconds of a time string [days-]hours:minutes:seconds whose
\* components are numbers, separated by colons or periods; Unset for any
\* other string.
ClaimedSeconds(time) ==
    With({k \in DOMAIN time : time[k] \in {":", "."}}, LAMBDA seps :
        IF Cardinality(seps) # 2 THEN Unset
        ELSE With(CHOOSE ab \in seps \X seps : ab[1] < ab[2], LAMBDA ab :
            With(<<SubSeq(time, 1, ab[1] - 1), SubSeq(time, ab[1] + 1, ab[2] - 1),
                   SubSeq(time, ab[2] + 1, Len(time))>>, LAMBDA part :
                With({k \in DOMAIN part[1] : part[1][k] = "-"}, LAMBDA dash :
                    IF Cardinality(dash) > 1 THEN Unset
                    ELSE With(IF dash = {} THEN <<<<"0">>, part[1]>>
                              ELSE <<SubSeq(part[1], 1, (CHOOSE c \in dash : TRUE) - 1),
                                     SubSeq(part[1], (CHOOSE c \in dash : TRUE) + 1,
                                            Len(part[1]))>>, LAMBDA dh :
                             IF Numeric(dh[1]) /\ Numeric(dh[2]) /\ Numeric(part[2])
                                    /\ Numeric(part[3])
                             THEN Holding(DecimalFrom(dh[1], 0) * 86400
                                          + DecimalFrom(dh[2], 0) * 3600
                                          + DecimalFrom(part[2], 0) * 60
                                          + DecimalFrom(part[3], 0))
                             ELSE Unset)))))

\* C26: a time string [days-]hours:minutes:seconds with exactly three colon
\* or period separated components parses to
\* days*86400 + hours*3600 + minutes*60 + seconds, with no days when there is
\* no day prefix: "1-02:03:04" gives 93784 and "02:03:04" gives 7384.
C26_TimeStringSeconds ==
    (sched.op = "get_jobs" /\ sched.outcome = "ok")
        => \E records \in {RecordLines(sched.input.stdout)} :
               \A k \in DOMAIN records :
                   \E time \in {Column(records[k], 4)} :
                       /\ ClaimedSeconds(time) # Unset
                              => sched.result[k].wallclock_time_seconds = ClaimedSeconds(time)
                       /\ time = <<"1", "-", "0", "2", ":", "0", "3", ":", "0", "4">>
                              => sched.result[k].wallclock_time_seconds = {93784}
                       /\ time = <<"0", "2", ":", "0", "3", ":", "0", "4">>
                              => sched.result[k].wallclock_time_seconds = {7384}

\* A listing with the time strings "02:03:04" and "1-02:03:04" was parsed.
C26_Witness ==
    /\ sched.op = "get_jobs"
    /\ sched.outcome = "ok"
    /\ Len(sched.result) = 2
    /\ RecordLines(sched.input.stdout)
           = <<PsLine(<<"3">>, <<"D">>, <<"0", "2", ":", "0", "3", ":", "0", "4">>),
               PsLine(<<"2">>, <<"T">>, <<"1", "-", "0", "2", ":", "0", "3", ":", "0", "4">>)>>
    /\ sched.result[1].wallclock_time_seconds = {7384}
    /\ sched.result[2].wallclock_time_seconds = {93784}

\* A time string with a component that carries a sign and is not negative
\* ("+1", "-0"): a '+' anywhere, or a '-' right after a separator that is
\* followed by zeros only.
SignedNotNegative(time) ==
    \/ "+" \in Range(time)
    \/ \E k \in DOMAIN time :
           /\ time[k] = "-"
           /\ k > 1
           /\ time[k - 1] \in {":", "."}
           /\ \E e \in (k + 1) .. Len(time) :
                  /\ \A j \in (k + 1) .. e : time[j] = "0"
                  /\ e = Len(time) \/ time[e + 1] \in {":", "."}

\* A malformed time string: the number of components is wrong, or a
\* component is not a number, or it is negative.
Malformed(time) == ClaimedSeconds(time) = Unset /\ ~SignedNotNegative(time)

\* C27: a malformed time string in a record of a well-formed listing (of a
\* listing command that succeeded) does not make get_jobs raise: the record
\* is returned with its job id, state and owner and with
\* wallclock_time_seconds unset, and every record of the output, the later
\* ones included, is returned.
C27_MalformedTimeAbsorbed ==
    (sched.op = "get_jobs" /\ sched.input.retval = 0 /\ WellFormed(sched.input.stdout))
        => \E records \in {RecordLines(sched.input.stdout)} :
               /\ sched.outcome = "ok"
               /\ Len(sched.result) >= Len(records)
               /\ \A k \in DOMAIN records :
                      /\ sched.result[k].job_id = Column(records[k], 1)
                      /\ Malformed(Column(records[k], 4))
                             => /\ sched.result[k].wallclock_time_seconds = Unset
                                /\ sched.result[k].job_state
                                       = TableState(Column(records[k], 2)[1])
                                /\ sched.result[k].job_owner = {Column(records[k], 3)}

\* A record with the time string "ab:03:04" was followed by a record with a
\* good one, and both were returned.
C27_Witness ==
    /\ sched.op = "get_jobs"
    /\ sched.outcome = "ok"
    /\ Len(sched.result) = 2
    /\ RecordLines(sched.input.stdout)
           = <<PsLine(<<"3">>, <<"I">>, <<"a", "b", ":", "0", "3", ":", "0", "4">>),
               PsLine(<<"1">>, <<"S">>, <<"0", ":", "0", "0", ":", "0", "1">>)>>
    /\ sched.result[1].job_id = <<"3">>
    /\ sched.result[1].job_owner = {<<"u">>}
    /\ sched.result[1].wallclock_time_seconds = Unset
    /\ sched.result[2].job_id = <<"1">>
    /\ sched.result[2].wallclock_time_seconds = {1}

\* C28: a record with job id, status and owner but without the time column
\* does not make get_jobs raise: every record of such a listing (of a listing
\* command that succeeded) is returned, the one without time column with
\* wallclock_time_seconds unset.
C28_MissingTimeAbsorbed ==
    (/\ sched.op = "get_jobs"
     /\ sched.input.retval = 0
     /\ \A line \in Range(RecordLines(sched.input.stdout)) :
            Cardinality(ColumnStarts(line)) >= 3)
        => \E records \in {RecordLines(sched.input.stdout)} :
               /\ sched.outcome = "ok"
               /\ Len(sched.result) >= Len(records)
               /\ \A k \in DOMAIN records :
                      /\ sched.result[k].job_id = Column(records[k], 1)
                      /\ Cardinality(ColumnStarts(records[k])) = 3
                             => sched.result[k].wallclock_time_seconds = Unset

----------------------------------------------------------------------------
(* Claims about kill_job.                                                   *)

\* The kill command was run: the direct plugin found the process of the job,
\* the PBS plugins run it always.
KillCommandRan ==
    /\ sched.op = "kill_job"
    /\ sched.input.backend = "direct" => sched.input.process_exists

\* C23: when the kill command has run, kill_job returns false for a non-zero
\* exit status and true for zero, whatever stdout and stderr hold, and does
\* not raise.
C23_KillJobReportsExitStatus ==
    KillCommandRan
        => /\ sched.outcome = "ok"
           /\ sched.type = "bool"
           /\ sched.result = (sched.input.retval = 0)

\* The direct plugin's kill command was refused with text on stderr, and
\* kill_job returned false.
C23_Witness ==
    /\ KillCommandRan
    /\ sched.input.backend = "direct"
    /\ sched.input.retval = 1
    /\ sched.input.stderr = <<"w", "\n">>
    /\ sched.outcome = "ok"
    /\ sched.result = FALSE

\* C24: kill_job returns a boolean and does not raise, also for a job whose
\* process has terminated before the call.
C24_KillAfterCompletion ==
    sched.op = "kill_job"
        => /\ sched.outcome = "ok"
           /\ sched.type = "bool"

----------------------------------------------------------------------------
(* Claims about the transport.                                              *)

\* C29: submit_job and get_jobs run their command inside a transport scope
\* they have acquired, and no scope is left open when the call ends, whether
\* it returned or raised.
C29_TransportScoped ==
    sched.op \in {"submit_job", "get_jobs"}
        => /\ \E k \in DOMAIN transport.events : transport.events[k].name = "exec"
           /\ \A k \in DOMAIN transport.events :
                  transport.events[k].name = "exec" => transport.events[k].depth >= 1
           /\ transport.depth = ClosedTransport.depth

----------------------------------------------------------------------------
(* Rendering the submit script header between other scheduler calls.        *)

NextHeader ==
    \/ \E job_tmpl \in JobTemplates : RenderHeader(job_tmpl)
    \/ \E backend \in {"pbspro", "torque"}, request \in ResourceRequests :
           RenderResourceLines(backend, request)
    \/ \E retval \in SubmitRetvals : SubmitJob(retval, <<"4", "\n">>, <<>>)
    \/ \E jobs \in {NoJobs, JobList(<< <<"1">> >>)}, retval \in ListingRetvals :
           GetJobs(jobs, "None", FALSE, retval,
                   PsLine(<<"1">>, <<"S">>, <<"0", ":", "0", "0", ":", "0", "1">>) \o <<"\n">>,
                   <<>>)
    \/ \E process_exists \in BOOLEAN, retval \in KillRetvals :
           KillJob(<<"4">>, process_exists, <<>>, retval, <<>>, <<>>)

SpecHeader == Init /\ [][NextHeader]_vars

MemoryWarning == "warning: Physical memory limiting is not supported by the direct scheduler."

WarningsLogged(log) == Cardinality({i \in DOMAIN log : log[i] = MemoryWarning})

\* C31: in the direct plugin a memory limit of the job template never fails
\* the rendering of the header: every rendering logs the warning and returns
\* the header of the same template without a memory limit.
C31_MemoryLimitIgnored ==
    (rendered.backend = "direct" /\ rendered.job_tmpl.max_memory_kb # 0)
        => /\ \A i \in DOMAIN rendered.headers :
                  rendered.headers[i]
                      = GetSubmitScriptHeader([rendered.job_tmpl EXCEPT !.max_memory_kb = 0])
           /\ WarningsLogged(rendered.log) = Len(rendered.headers)

\* A template with a memory limit and an error path of its own was rendered.
C31_Witness ==
    /\ rendered.backend = "direct"
    /\ rendered.job_tmpl.max_memory_kb = 2048
    /\ rendered.job_tmpl.sched_error_path # <<>>
    /\ ~rendered.job_tmpl.sched_join_files
    /\ rendered.job_tmpl.import_sys_environment
    /\ rendered.job_tmpl.sched_output_path = <<>>
    /\ rendered.job_tmpl.custom_scheduler_commands = <<>>
    /\ ~rendered.job_tmpl.job_resource.set
    /\ rendered.headers = << <<"exec 2> ", "_scheduler-stderr.txt", "\n">> >>
    /\ MemoryWarning \in Range(rendered.log)

\* C32: in a result of get_jobs an entry is DONE only if it is the entry of
\* a record whose status starts with X or Z, or the entry of a requested job
\* id that no record of the listing has; and the entry of a record whose
\* status starts with no character of the table is there and UNDETERMINED.
C32_DoneOnlyWhenTerminal ==
    (sched.op = "get_jobs" /\ sched.outcome = "ok")
        => \E records \in {RecordLines(sched.input.stdout)} :
               /\ Len(sched.result) >= Len(records)
               /\ \A k \in DOMAIN sched.result :
                      sched.result[k].job_state = "DONE"
                          => \/ /\ k <= Len(records)
                                /\ Column(records[k], 2)[1] \in {"X", "Z"}
                             \/ /\ k > Len(records)
                                /\ sched.result[k].job_id \in Requested(sched.input.jobs)
                                /\ Listed(sched.input.stdout, sched.result[k].job_id) = {}
               /\ \A k \in DOMAIN records :
                      Column(records[k], 2)[1]
                              \notin {"D", "I", "R", "S", "T", "U", "W", "X", "Z"}
                          => /\ sched.result[k].job_id = Column(records[k], 1)
                             /\ sched.result[k].job_state = "UNDETERMINED"

\* C33: in every result of get_jobs, whatever the listing output, the
\* wallclock_time_seconds of an entry is unset or one integer that is not
\* negative.
C33_WallclockNotNegative ==
    (sched.op = "get_jobs" /\ sched.outcome = "ok")
        => \A k \in DOMAIN sched.result :
               /\ Cardinality(sched.result[k].wallclock_time_seconds) <= 1
               /\ \A n \in sched.result[k].wallclock_time_seconds : n \in Nat

\* A listing with a time of one second and a time with a negative number of
\* minutes was parsed: the first entry holds 1, the second is unset.
C33_Witness ==
    /\ sched.op = "get_jobs"
    /\ sched.outcome = "ok"
    /\ Len(sched.result) = 2
    /\ Len(RecordLines(sched.input.stdout)) = 2
    /\ Column(RecordLines(sched.input.stdout)[1], 4) = <<"0", ":", "0", "0", ":", "0", "1">>
    /\ Column(RecordLines(sched.input.stdout)[2], 4) = <<"0", ":", "-", "1", ":", "0", "0">>
    /\ sched.result[1].wallclock_time_seconds = Holding(1)
    /\ sched.result[2].wallclock_time_seconds = Unset

----------------------------------------------------------------------------
(* Claims about the coordinator: fire-and-forget, closing, frame.           *)

\* The subscribers a task is offered to: those up to the first that does not
\* reject it.
OfferedTo(subs) ==
    SubSeq(subs, 1,
           IF \E i \in DOMAIN subs : Behaviour(subs[i].cb) # "reject"
           THEN CHOOSE i \in DOMAIN subs :
                    /\ Behaviour(subs[i].cb) # "reject"
                    /\ \A j \in 1 .. (i - 1) : Behaviour(subs[j].cb) = "reject"
           ELSE Len(subs))

\* C34: a task_send on an open coordinator invokes the subscribers up to the
\* first that does not reject, in the order of the registry, whether
\* no_reply is true or false; it returns normally also when the last of them
\* failed; with no_reply=true it returns nothing, with no_reply=false a
\* future.
C34_NoReplySameDelivery ==
    TaskSendRan
        => /\ last.invoked = OfferedTo(task_subscribers)
           /\ last.outcome = "ok"
           /\ last.ret = "none"
           /\ last.no_reply => last.future = NoFuture
           /\ ~last.no_reply => last.future.state # "none"

\* A fire-and-forget task_send whose first subscriber rejected and whose
\* second failed, with a third registered behind them.
C34_Witness ==
    /\ TaskSendRan
    /\ last.no_reply
    /\ Len(task_subscribers) = 3
    /\ Len(last.invoked) = 2
    /\ Behaviour(last.invoked[1].cb) = "reject"
    /\ Behaviour(last.invoked[2].cb) = "raise"
    /\ last.outcome = "ok"
    /\ last.future = NoFuture

\* From a closed coordinator no call leads to an open one, and a close() of
\* an open one leaves no subscriber behind.
C35StaysClosed ==
    /\ closed => closed'
    /\ (~closed /\ closed')
           => /\ last'.op = "close"
              /\ task_subscribers' = <<>>
              /\ broadcast_subscribers' = <<>>
              /\ rpc_subscribers' = <<>>

\* On a closed coordinator is_closed() says so and a send has invoked nobody.
C35ClosedSilent ==
    closed =>
        /\ last.op = "is_closed" => last.ret = "True"
        /\ last.op \in SendOps => last.invoked = <<>>

\* C35: once close() was called the coordinator stays closed whatever is
\* called on it, is_closed() returns true, and a send issued after the close
\* invokes none of the subscribers registered before it.
C35_ClosedAbsorbing == [][C35StaysClosed]_vars /\ []C35ClosedSilent

\* A broadcast_send on a coordinator that was closed: nobody was invoked.
C35_Witness ==
    /\ closed
    /\ last.op = "broadcast_send"
    /\ last.outcome = CoordinatorConnectionError
    /\ last.invoked = <<>>
    /\ broadcast_subscribers = Released

----------------------------------------------------------------------------
(* Claims about subscribers that call the coordinator.                      *)

\* C36: a task_send or broadcast_send invokes no subscriber after a
\* subscriber it invoked has closed the coordinator: every subscriber of the
\* delivery was called on an open coordinator.
C36_NoDeliveryAfterClose ==
    last.op \in {"task_send", "broadcast_send"}
        => \A i \in DOMAIN last.invoked : ~last.invoked[i].closed

\* The entries of a registry that a list of invocations covers.
Reached(invoked) == {[id |-> invoked[i].id, cb |-> invoked[i].cb] : i \in DOMAIN invoked}

\* The task subscribers of the model that reject the task.
Rejecting == {"reject", "close_reject", "unsub_reject", "add_reject"}

\* The entries of a task registry up to the first that does not reject.
TaskAudience(subs) ==
    {subs[i] : i \in {k \in DOMAIN subs : \A j \in 1 .. (k - 1) : subs[j].cb \in Rejecting}}

C37Broadcast ==
    ( /\ last'.op = "broadcast_send"
      /\ ~closed /\ ~closed'
      /\ broadcast_subscribers' # broadcast_subscribers )
        => /\ last'.outcome = "ok"
           /\ Range(broadcast_subscribers) \subseteq Reached(last'.invoked)

C37Task ==
    ( /\ last'.op = "task_send"
      /\ ~closed /\ ~closed'
      /\ task_subscribers' # task_subscribers )
        => /\ last'.outcome = "ok"
           /\ TaskAudience(task_subscribers) \subseteq Reached(last'.invoked)

\* C37: a broadcast_send or task_send during which a subscriber added or
\* removed a subscriber of the registry being iterated returns normally and
\* has invoked every subscriber that was registered when it started (a
\* task_send: every one up to the first that does not reject).
C37_ReentrantChangeSafe == [][C37Broadcast /\ C37Task]_vars

----------------------------------------------------------------------------
(* Frame conditions of the coordinator.                                     *)

\* The entry of a registry under a key: the subscriber, or nothing.
EntryOf(d, k) == IF HasKey(d, k) THEN {DictGet(d, k)} ELSE {}

\* The keys whose entry differs between two registries.
ChangedKeys(before, after) ==
    {k \in Keys(before) \cup Keys(after) : EntryOf(before, k) # EntryOf(after, k)}

\* The number of entries a step changes, over the three registries.
ChangedEntries ==
    Cardinality(ChangedKeys(task_subscribers, task_subscribers'))
        + Cardinality(ChangedKeys(broadcast_subscribers, broadcast_subscribers'))
        + Cardinality(ChangedKeys(rpc_subscribers, rpc_subscribers'))

C38Frame ==
    /\ last'.op \in SendOps => UNCHANGED coordVars
    /\ (last'.op \in AddOps \cup RemoveOps /\ last'.outcome = "ok")
           => /\ ChangedEntries = 1
              /\ closed' = closed
    /\ (last'.op \in AddOps \cup RemoveOps /\ last'.outcome # "ok")
           => UNCHANGED coordVars

\* C38: a send leaves the three registries and the closed flag as they
\* were; an add or remove that succeeds changes exactly one entry of exactly
\* one registry and nothing else; an add or remove that fails changes
\* nothing.
C38_FrameConditions == [][C38Frame]_vars

----------------------------------------------------------------------------
(* The walltime directive of PBSPro and Torque.                             *)

\* The text after `walltime=` in a rendered line, up to the next piece that
\* is neither a digit nor a colon; <<>> when the line has no walltime.
WalltimeText(line) ==
    IF \E p \in DOMAIN line : line[p] = "walltime="
    THEN LET p == CHOOSE q \in DOMAIN line : line[q] = "walltime="
             last_ == CHOOSE q \in p .. Len(line) :
                          /\ \A j \in (p + 1) .. q : line[j] \in Digits \cup {":"}
                          /\ q = Len(line) \/ line[q + 1] \notin Digits \cup {":"}
         IN  SubSeq(line, p + 1, last_)
    ELSE <<>>

\* HH:MM:SS with at least two digits of hours, MM and SS below 60, that adds
\* up to `seconds`.
IsWalltimeOf(text, seconds) ==
    \E pieces \in {SplitOn(text, {":"})} :
        /\ Len(pieces) = 3
        /\ \A k \in 1 .. 3 : \A j \in DOMAIN pieces[k] : pieces[k][j] \in Digits
        /\ Len(pieces[1]) >= 2 /\ Len(pieces[2]) = 2 /\ Len(pieces[3]) = 2
        /\ IntOf(pieces[2]) < 60
        /\ IntOf(pieces[3]) < 60
        /\ IntOf(pieces[1]) * 3600 + IntOf(pieces[2]) * 60 + IntOf(pieces[3]) = seconds

\* A limit that is set and is no positive integer: zero, negative, or not
\* convertible to an integer.
NotPositive(value) ==
    /\ value # PyNone
    /\ \/ value.type = "int" /\ value.int <= 0
       \/ value.type = "str" /\ (~IsInt(value.str) \/ IntValue(value.str) <= 0)

\* C39: the resource lines PBSPro and Torque render for a request with a
\* positive integer max_wallclock_seconds hold exactly one walltime=HH:MM:SS,
\* with MM and SS below 60 and the requested number of seconds; a
\* max_wallclock_seconds that is zero, negative or not convertible to an
\* integer raises ValueError with no line rendered, and so does such a
\* max_memory_kb.
C39_WalltimeRendering ==
    rendered.backend \in {"pbspro", "torque"}
        => \A i \in DOMAIN rendered.headers :
               LET request == rendered.job_tmpl
                   out == rendered.headers[i]
               IN  /\ (out.outcome = "ok" /\ request.max_wallclock_seconds.type = "int")
                          => /\ request.max_wallclock_seconds.int > 0
                             /\ Cardinality({k \in DOMAIN out.lines :
                                                 WalltimeText(out.lines[k]) # <<>>}) = 1
                             /\ \E k \in DOMAIN out.lines :
                                    IsWalltimeOf(WalltimeText(out.lines[k]),
                                                 request.max_wallclock_seconds.int)
                   /\ (NotPositive(request.max_wallclock_seconds)
                           \/ NotPositive(request.max_memory_kb))
                          => (out.outcome = "ValueError" /\ out.lines = <<>>)

====
